---- MODULE Spec2Model ----
(***************************************************************************)
(* Model of the retrieval-augmented pipeline of the HVAC catalog:          *)
(*   - /api/rag/process-pdf  (POST: single-document and batch ingestion)   *)
(*   - /api/rag/ask          (POST: question answering, GET: health check) *)
(* Every action is one continuation of a request handler: the code that    *)
(* runs between two awaits, together with the effect of the awaited call   *)
(* (a provider call, a store statement, a timer).  Timers that only delay  *)
(* (retry backoff, rate-limit pauses) are folded into the step they follow.*)
(***************************************************************************)
EXTENDS Integers, Sequences, FiniteSets, TLC

\* ------------------------------------------------------------------ bounds
\* ingestion runs that reach the store stage before the last run starts
MaxRuns == 2
\* chunks the chunker yields for one extracted text
MaxChunks == 2
\* chunks of a document in the workload of the embedding stage
EmbedChunks == 3
\* runs that reach the store stage before the last request of the workload
\* with fairness
LiveRuns == 1

\* ------------------------------------------------------- program constants
maxAttempts == 3
maxRetries == 3
maxChunks == 50

\* ------------------------------------------------------------ input domains
\* document identifiers (model numbers); "" is JavaScript's falsy string
Docs == {"M1", "M2"}
NoDoc == ""
\* ingestion request handlers that may be in flight at the same time
Handlers == {1, 2}
Manual(m) == [model_number |-> m, pdf_url |-> "url"]
\* contents of the manuals table the batch may read (pdf_url may be missing)
Registries ==
  { <<>>,
    <<Manual("M1")>>,
    <<Manual("M1"), Manual("M2")>>,
    <<[model_number |-> "M2", pdf_url |-> ""], Manual("M1")>> }
\* vectors the embedding provider may return for a document chunk: two
\* dimensionalities, none of them the zero vector
DocVecs == {<<1, 0>>, <<0, 1>>, <<1>>}
\* the single vector the provider returns in the ingestion workloads
IngestVecs == {<<1, 0>>}
Components == -1..2
\* vectors the embedding provider may return for a question
QueryVecs == {<<2, 1>>, <<1, -1>>, <<1>>}
\* the single vector the provider returns for a question in the ingestion
\* workloads
ReaderVecs == {<<1, 0>>}

\* texts handed to the chunker: a text of letters, with at most one break
\* mark (a paragraph, a newline, a sentence end, a period, a space)
PlainText(n) == [len |-> n, marks |-> {}]
Marked(n, p, pat) ==
  [len |-> n, marks |-> {[pos |-> p + j - 1, ch |-> pat[j]] : j \in 1..Len(pat)}]
BreakMarks == {<<"\n", "\n">>, <<"\n">>, <<".", " ">>, <<".">>, <<" ">>}
MarkPositions == {0, 29, 31, 60, 99, 100}
TextLengths == {0, 1, 100, 101, 250}
\* a text of paragraphs whose ends fall just past the 30% mark of every
\* second window of 100 characters
ParagraphText ==
  [len |-> 1200,
   marks |-> UNION {{[pos |-> 29 + 103 * k, ch |-> "\n"],
                     [pos |-> 30 + 103 * k, ch |-> "\n"],
                     [pos |-> 101 + 103 * k, ch |-> "\n"],
                     [pos |-> 102 + 103 * k, ch |-> "\n"]} : k \in 0..10}]
Texts ==
  {PlainText(n) : n \in TextLengths} \cup
  {Marked(n, p, pat) : n \in TextLengths, p \in MarkPositions,
                       pat \in BreakMarks} \cup
  {ParagraphText}
\* the extracted text of a document that splitTextIntoChunks(text, 1000, 100)
\* cuts into k chunks
TextWith(k) == PlainText(IF k = 1 THEN 100 ELSE 900 * (k - 2) + 500)
IngestTexts == {TextWith(k) : k \in 1..MaxChunks}
EmbedTexts == {TextWith(k) : k \in 1..EmbedChunks}
\* extracted texts of more than maxChunks chunks
LongIngestTexts == {PlainText(46000), PlainText(100000)}
\* texts longer than three chunks of the largest size
LongTexts == {PlainText(30001), Marked(30001, 9999, <<"\n", "\n">>)}
\* maxChunkSize and overlap arguments (sizes are even)
SizeArgs == {50, 100, 30000}
OverlapArgs == {0, 20, 50, 80}
ChunkInputs ==
  {[text |-> t, maxChunkSize |-> z, overlap |-> o] :
     t \in {x \in Texts : \A m \in x.marks : m.pos < x.len} \cup LongTexts,
     z \in SizeArgs, o \in OverlapArgs}

VARIABLES
  store,       \* table manual_chunks, rows in insertion order
  now,         \* logical clock read by new Date() when chunkData is built
  pc,          \* per handler: the await it is suspended at
  req,         \* per handler: the request body
  manuals,     \* per handler: rows read from the manuals table
  processed,   \* per handler: loop counter of the batch
  results,     \* per handler: outcome records of the batch
  doc,         \* per handler: modelNumber of the running processPDFDocument
  attempts,    \* per handler: attempts of the current download / embedding
  nChunks,     \* per handler: chunks.length
  cleanText,   \* per handler: the text extracted from the document
  docChunks,   \* per handler: chunks, after the limit to maxChunks
  timer,       \* per handler: milliseconds of the timer it is suspended on
  embeddings,  \* per handler: embeddings collected so far
  chunkData,   \* per handler: rows prepared for insertion
  storeOps,    \* per handler (history): store statements issued by the run
  docBefore,   \* per handler (history): the document's rows when the run began
  resp,        \* per handler: the HTTP response
  askPc,       \* ask handler: the await it is suspended at
  askReq,      \* ask handler: the request (kind, document filter, limit)
  askQ,        \* ask handler: queryEmbedding
  askData,     \* ask handler: rows read by retrieveRelevantChunks
  askChunks,   \* ask handler: relevantChunks
  askGen,      \* ask handler (history): the generation provider was called
  askCall,     \* ask handler (history): the prompt sent, the result returned
  askSeen,     \* ask handler (history): what the store query met
  askResp,     \* ask handler: the HTTP response
  chunkIn,     \* chunker call: text, maxChunkSize, overlap
  chunkOut,    \* chunker call: what splitTextIntoChunks returned
  wipePc,      \* wipe handler: the await it is suspended at
  wipeBefore,  \* wipe handler: beforeCount (Null when the count failed)
  wipeLog,     \* wipe handler (history): rows at entry, calls that failed
  wipeResp     \* wipe handler: the HTTP response

handlerVars == <<now, pc, req, manuals, processed, results, doc, attempts,
                 nChunks, cleanText, docChunks, timer,
                 embeddings, chunkData, storeOps, docBefore, resp>>
ingestVars == <<store, handlerVars>>
askVars == <<askPc, askReq, askQ, askData, askChunks, askGen, askCall, askSeen,
            askResp>>
chunkerVars == <<chunkIn, chunkOut>>
wipeVars == <<wipePc, wipeBefore, wipeLog, wipeResp>>
vars == <<ingestVars, askVars, chunkerVars, wipeVars>>
\* what the steps of one route leave alone
notIngest == <<askVars, chunkerVars, wipeVars>>
notAsk == <<ingestVars, chunkerVars, wipeVars>>
notChunker == <<ingestVars, askVars, wipeVars>>
notWipe == <<handlerVars, askVars, chunkerVars>>

\* ------------------------------------------------------------------ helpers

Range(s) == {s[i] : i \in 1..Len(s)}

\* JSON.stringify / JSON.parse of a number array: the text is modelled as the
\* sequence of the decimal literals of its elements
NumStr(n) ==
  CASE n = -1 -> "-1" [] n = 0 -> "0" [] n = 1 -> "1" [] n = 2 -> "2"
    [] OTHER -> "null"
StrNum(t) == CHOOSE n \in Components : NumStr(n) = t
Stringify(v) == [i \in 1..Len(v) |-> NumStr(v[i])]
Parse(t) == [i \in 1..Len(t) |-> StrNum(t[i])]

\* rows of table t that belong to model number m
RowsOf(t, m) == SelectSeq(t, LAMBDA r : r.model_number = m)

\* supabase.from('manual_chunks').delete().eq('model_number', m)
DeleteRows(t, m) == SelectSeq(t, LAMBDA r : r.model_number # m)

\* insert that leaves out the last row
InsertRowsButLast(t, rows) == t \o SubSeq(rows, 1, Len(rows) - 1)

\* supabase.from('manual_chunks').insert(rows)
InsertRows(t, rows) == t \o rows

NoResp == [status |-> 0, kind |-> "none", successful |-> 0, failed |-> 0,
           total |-> 0, results |-> <<>>]

\* what processPDFDocument returns; error is the condition named by the
\* message of the error it caught ("none": the outcome has no error field)
Outcome(m, ok, n, msg) ==
  [success |-> ok, chunksProcessed |-> n, modelNumber |-> m, message |-> msg,
   error |-> "none"]

\* the conditions POST's catch tells apart by the text of error.message
Conditions == {"timeout", "memory", "ratelimit", "other"}

\* the outcome of processPDFDocument's catch for an error of condition c
Failed(m, msg, c) == [Outcome(m, FALSE, 0, msg) EXCEPT !.error = c]

\* the status POST's catch gives an error of condition c
Classify(c) ==
  CASE c = "timeout" -> 408
    [] c = "memory" -> 413
    [] c = "ratelimit" -> 429
    [] OTHER -> 500

Count(rs, ok) == Len(SelectSeq(rs, LAMBDA r : r.success = ok))

\* the batch summary returned after the loop
BatchSummary(rs) ==
  [status |-> 200, kind |-> "batch", successful |-> Count(rs, TRUE),
   failed |-> Count(rs, FALSE), total |-> Len(rs), results |-> rs]

\* the single-document response: the outcome, 200 or 500
SingleResponse(out) ==
  [status |-> IF out.success THEN 200 ELSE 500, kind |-> "single",
   successful |-> 0, failed |-> 0, total |-> 0, results |-> <<out>>]

ErrorResponse(code) ==
  [status |-> code, kind |-> "error", successful |-> 0, failed |-> 0,
   total |-> 0, results |-> <<>>]

\* chunk.substring(0, n) of a chunk given by the part of the text it holds
Substring(c, n) ==
  [from |-> c.from, to |-> IF c.to - c.from > n THEN c.from + n ELSE c.to]

\* the rows processPDFDocument prepares from chunks and embeddings
ChunkData(m, cs, embs, t) ==
  [i \in 1..Len(cs) |->
    [model_number |-> m, content |-> Substring(cs[i], 50000),
     chunk_index |-> i - 1, embedding |-> Stringify(embs[i]),
     processed_at |-> t]]

\* ValidEmbeddings that counts nothing when fewer than half are valid
ValidEmbeddingsIfMajority(embs) ==
  IF 2 * Len(SelectSeq(embs, LAMBDA e : Len(e) > 0)) < Len(embs) THEN <<>>
  ELSE SelectSeq(embs, LAMBDA e : Len(e) > 0)

\* generateEmbeddings' final validation
ValidEmbeddings(embs) == SelectSeq(embs, LAMBDA e : Len(e) > 0)

\* LimitChunks that keeps the last maxChunks chunks
LimitChunksLast(cs) ==
  IF Len(cs) > maxChunks THEN SubSeq(cs, Len(cs) - maxChunks + 1, Len(cs))
  ELSE cs

\* chunks = chunks.slice(0, maxChunks)
LimitChunks(cs) == IF Len(cs) > maxChunks THEN SubSeq(cs, 1, maxChunks) ELSE cs

\* ----------------------------------------------------------------- chunker
\* A text is its length and the places of the characters that matter to the
\* chunker: marks is a set of [pos, ch] with ch a newline, a period or a
\* space; every other character is a letter.  Positions count from 0.
Max(S) == CHOOSE x \in S : \A y \in S : y <= x
Min2(a, b) == IF a < b THEN a ELSE b
Max2(a, b) == IF a > b THEN a ELSE b

CharAt(text, i) ==
  IF \E m \in text.marks : m.pos = i
  THEN (CHOOSE m \in text.marks : m.pos = i).ch
  ELSE "a"

\* String.prototype.lastIndexOf(pat, from): the last index <= from at which
\* pat occurs, or -1
LastIndexOf(text, pat, from) ==
  LET hits == {m.pos : m \in {k \in text.marks :
                 /\ k.pos <= from
                 /\ k.pos + Len(pat) <= text.len
                 /\ \A j \in 1..Len(pat) : CharAt(text, k.pos + j - 1) = pat[j]}}
  IN IF hits = {} THEN -1 ELSE Max(hits)

IsSpace(c) == c \in {"\n", " "}

\* white space at the start and at the end of text.slice(s, e)
RECURSIVE Leading(_, _, _)
Leading(text, s, e) ==
  IF s < e /\ IsSpace(CharAt(text, s)) THEN 1 + Leading(text, s + 1, e) ELSE 0

RECURSIVE Trailing(_, _, _)
Trailing(text, s, e) ==
  IF s < e /\ IsSpace(CharAt(text, e - 1)) THEN 1 + Trailing(text, s, e - 1)
  ELSE 0

\* text.slice(s, e).trim(): the part of the text the chunk holds
Trim(text, s, e) ==
  IF Leading(text, s, e) = e - s THEN [from |-> s, to |-> s]
  ELSE [from |-> s + Leading(text, s, e), to |-> e - Trailing(text, s, e)]

ChunkLength(c) == c.to - c.from

\* maxChunkSize = Math.max(100, Math.min(maxChunkSize, 10000))
ClampSizeNoCeiling(maxChunkSize) == Max2(100, maxChunkSize)

ClampSize(maxChunkSize) == Max2(100, Min2(maxChunkSize, 10000))

\* overlap = Math.max(0, Math.min(overlap, maxChunkSize * 0.5)), for the even
\* sizes of the input domain
ClampOverlap(overlap, size) == Max2(0, Min2(overlap, size \div 2))

\* Math.ceil(text.length / (maxChunkSize - overlap)) + 10
MaxIterations(text, size, overlap) ==
  (text.len + (size - overlap) - 1) \div (size - overlap) + 10

\* the break point chosen for the window that ends at endIndex, or -1
BreakPoint(text, startIndex, endIndex, size) ==
  LET searchStart == Max2(startIndex, endIndex - size)
      lastNewline == LastIndexOf(text, <<"\n", "\n">>, endIndex)
      lastSingleNewline == LastIndexOf(text, <<"\n">>, endIndex)
      lastPeriod == LastIndexOf(text, <<".", " ">>, endIndex)
      lastDot == LastIndexOf(text, <<".">>, endIndex)
  IN IF lastNewline > searchStart THEN lastNewline + 2
     ELSE IF lastSingleNewline > searchStart THEN lastSingleNewline + 1
     ELSE IF lastPeriod > searchStart THEN lastPeriod + 2
     ELSE IF lastDot > searchStart THEN lastDot + 1
     ELSE -1

\* endIndex of the iteration that starts at startIndex; the break point is
\* used when breakPoint > startIndex + maxChunkSize * 0.3
EndIndex(text, startIndex, size) ==
  LET endIndex == Min2(startIndex + size, text.len)
      breakPoint == BreakPoint(text, startIndex, endIndex, size)
  IN IF endIndex < text.len /\ 10 * breakPoint > 10 * startIndex + 3 * size
     THEN breakPoint ELSE endIndex

\* startIndex of the next iteration
NextStart(startIndex, endIndex, size, overlap) ==
  LET nextStart == endIndex - overlap
      advanced == IF nextStart <= startIndex
                  THEN startIndex + Max2(1, size - overlap)
                  ELSE nextStart
  IN IF advanced < 0 THEN endIndex ELSE advanced

\* one iteration of the while loop on the loop's state st: spans are the
\* [startIndex, endIndex) taken (history), chunks the trimmed slices pushed;
\* done when the loop condition fails or the loop breaks
ChunkStep(text, size, overlap, st) ==
  IF ~(st.startIndex < text.len
       /\ st.iterationCount < MaxIterations(text, size, overlap))
  THEN [st EXCEPT !.done = TRUE]
  ELSE LET endIndex == EndIndex(text, st.startIndex, size)
           chunk == Trim(text, st.startIndex, endIndex)
       IN IF \/ st.startIndex >= endIndex
             \/ st.startIndex < 0
             \/ endIndex > text.len
          THEN [st EXCEPT !.done = TRUE]
          ELSE [startIndex |-> NextStart(st.startIndex, endIndex, size, overlap),
                iterationCount |-> st.iterationCount + 1,
                spans |-> Append(st.spans, [start |-> st.startIndex,
                                            end |-> endIndex]),
                chunks |-> IF ChunkLength(chunk) > 0
                           THEN Append(st.chunks, chunk)
                           ELSE st.chunks,
                done |-> FALSE]

\* 2^k iterations of the loop, or fewer when it ends before
RECURSIVE Iterate(_, _, _, _, _)
Iterate(text, size, overlap, st, k) ==
  IF st.done THEN st
  ELSE IF k = 0 THEN ChunkStep(text, size, overlap, st)
  ELSE Iterate(text, size, overlap, Iterate(text, size, overlap, st, k - 1),
               k - 1)

\* the least k with 2^k >= n
RECURSIVE Levels(_)
Levels(n) == IF n <= 1 THEN 0 ELSE 1 + Levels((n + 1) \div 2)

\* the while loop, run until it ends: it ends within maxIterations + 1 tests
\* of its condition
ChunkLoop(text, size, overlap) ==
  Iterate(text, size, overlap,
          [startIndex |-> 0, iterationCount |-> 0, spans |-> <<>>,
           chunks |-> <<>>, done |-> FALSE],
          Levels(MaxIterations(text, size, overlap) + 1))

\* chunks.filter(chunk => chunk.length > 0 && chunk.length <= maxChunkSize * 2)
ValidChunks(chunks, size) ==
  SelectSeq(chunks, LAMBDA c : ChunkLength(c) > 0 /\ ChunkLength(c) <= size * 2)

NoChunks == [called |-> FALSE, size |-> 0, overlap |-> 0, spans |-> <<>>,
             chunks |-> <<>>, startIndex |-> 0, iterationCount |-> 0]

\* splitTextIntoChunks(text, maxChunkSize, overlap)
SplitTextIntoChunks(text, maxChunkSize, overlap) ==
  IF text.len = 0
  THEN [NoChunks EXCEPT !.called = TRUE]
  ELSE LET size == ClampSize(maxChunkSize)
           lap == ClampOverlap(overlap, size)
           out == ChunkLoop(text, size, lap)
       IN [called |-> TRUE, size |-> size, overlap |-> lap,
           spans |-> out.spans, chunks |-> ValidChunks(out.chunks, size),
           startIndex |-> out.startIndex,
           iterationCount |-> out.iterationCount]

\* one call of splitTextIntoChunks on the input drawn
SplitText ==
  /\ ~chunkOut.called
  /\ chunkOut' = SplitTextIntoChunks(chunkIn.text, chunkIn.maxChunkSize,
                                     chunkIn.overlap)
  /\ UNCHANGED chunkIn
  /\ UNCHANGED notChunker

\* --------------------------------------------------------------- ingestion
\* Continue with a batch that stops at the first failed document
ContinueAbortsOnFailure(h, batch, ms, p, rs, out) ==
  IF batch
  THEN /\ results' = [results EXCEPT ![h] = Append(rs, out)]
       /\ IF p < Len(ms) /\ out.success
          THEN /\ processed' = [processed EXCEPT ![h] = p + 1]
               /\ pc' = [pc EXCEPT ![h] = "wait"]
               /\ resp' = [resp EXCEPT ![h] = NoResp]
          ELSE /\ processed' = [processed EXCEPT ![h] = p]
               /\ pc' = [pc EXCEPT ![h] = "done"]
               /\ resp' = [resp EXCEPT ![h] = BatchSummary(Append(rs, out))]
  ELSE /\ results' = [results EXCEPT ![h] = rs]
       /\ processed' = [processed EXCEPT ![h] = p]
       /\ pc' = [pc EXCEPT ![h] = "done"]
       /\ resp' = [resp EXCEPT ![h] = SingleResponse(out)]

\* What POST does with the outcome of processPDFDocument: in a batch, record
\* it and go on with the next manual (after the 1 s pause) or return the
\* summary; for a single document, return it.
Continue(h, batch, ms, p, rs, out) ==
  IF batch
  THEN /\ results' = [results EXCEPT ![h] = Append(rs, out)]
       /\ IF p < Len(ms)
          THEN /\ processed' = [processed EXCEPT ![h] = p + 1]
               /\ pc' = [pc EXCEPT ![h] = "wait"]
               /\ resp' = [resp EXCEPT ![h] = NoResp]
          ELSE /\ processed' = [processed EXCEPT ![h] = p]
               /\ pc' = [pc EXCEPT ![h] = "done"]
               /\ resp' = [resp EXCEPT ![h] = BatchSummary(Append(rs, out))]
  ELSE /\ results' = [results EXCEPT ![h] = rs]
       /\ processed' = [processed EXCEPT ![h] = p]
       /\ pc' = [pc EXCEPT ![h] = "done"]
       /\ resp' = [resp EXCEPT ![h] = SingleResponse(out)]

\* the outcome of the running processPDFDocument reaches POST
Return(h, out) ==
  Continue(h, req[h].process_all, manuals[h], processed[h], results[h], out)

\* processPDFDocument up to its first await: input validation, then the
\* first download attempt is issued
StartDocument(h, batch, ms, p, rs, m, u) ==
  /\ doc' = [doc EXCEPT ![h] = m]
  /\ attempts' = [attempts EXCEPT ![h] = 0]
  /\ nChunks' = [nChunks EXCEPT ![h] = 0]
  /\ docChunks' = [docChunks EXCEPT ![h] = <<>>]
  /\ cleanText' = [cleanText EXCEPT ![h] = PlainText(0)]
  /\ embeddings' = [embeddings EXCEPT ![h] = <<>>]
  /\ storeOps' = [storeOps EXCEPT ![h] = 0]
  /\ docBefore' = [docBefore EXCEPT ![h] = RowsOf(store, m)]
  /\ chunkData' = [chunkData EXCEPT ![h] = <<>>]
  /\ IF m = "" \/ u = ""
     THEN Continue(h, batch, ms, p, rs, Failed(m, "input", "other"))
     ELSE /\ pc' = [pc EXCEPT ![h] = "download"]
          /\ results' = [results EXCEPT ![h] = rs]
          /\ processed' = [processed EXCEPT ![h] = p]
          /\ resp' = [resp EXCEPT ![h] = NoResp]

\* a new request: the locals of the handler's previous request are gone
ResetLocals(h) ==
  /\ manuals' = [manuals EXCEPT ![h] = <<>>]
  /\ processed' = [processed EXCEPT ![h] = 0]
  /\ results' = [results EXCEPT ![h] = <<>>]
  /\ doc' = [doc EXCEPT ![h] = NoDoc]
  /\ attempts' = [attempts EXCEPT ![h] = 0]
  /\ nChunks' = [nChunks EXCEPT ![h] = 0]
  /\ docChunks' = [docChunks EXCEPT ![h] = <<>>]
  /\ cleanText' = [cleanText EXCEPT ![h] = PlainText(0)]
  /\ embeddings' = [embeddings EXCEPT ![h] = <<>>]
  /\ chunkData' = [chunkData EXCEPT ![h] = <<>>]
  /\ storeOps' = [storeOps EXCEPT ![h] = 0]
  /\ docBefore' = [docBefore EXCEPT ![h] = <<>>]

\* POST with a body that names neither a document nor process_all: 400
PostInvalid(h) ==
  /\ pc[h] \in {"idle", "done"}
  /\ pc' = [pc EXCEPT ![h] = "done"]
  /\ req' = [req EXCEPT ![h] =
               [process_all |-> FALSE, model_number |-> "", pdf_url |-> ""]]
  /\ resp' = [resp EXCEPT ![h] = ErrorResponse(400)]
  /\ ResetLocals(h)
  /\ UNCHANGED <<store, now>>
  /\ UNCHANGED <<timer, notIngest>>

\* POST {model_number, pdf_url}: processPDFDocument starts
PostSingle(h) ==
  /\ pc[h] \in {"idle", "done"}
  /\ now <= MaxRuns
  /\ \E m \in Docs :
       /\ req' = [req EXCEPT ![h] =
                    [process_all |-> FALSE, model_number |-> m,
                     pdf_url |-> "url"]]
       /\ StartDocument(h, FALSE, <<>>, 0, <<>>, m, "url")
  /\ manuals' = [manuals EXCEPT ![h] = <<>>]
  /\ UNCHANGED <<store, now>>
  /\ UNCHANGED <<timer, notIngest>>

\* POST {process_all: true}: the manuals table is read
PostBatch(h) ==
  /\ pc[h] \in {"idle", "done"}
  /\ now <= MaxRuns
  /\ pc' = [pc EXCEPT ![h] = "fetch"]
  /\ req' = [req EXCEPT ![h] =
               [process_all |-> TRUE, model_number |-> "", pdf_url |-> ""]]
  /\ resp' = [resp EXCEPT ![h] = NoResp]
  /\ ResetLocals(h)
  /\ UNCHANGED <<store, now>>
  /\ UNCHANGED <<timer, notIngest>>

\* the manuals query fails with an error of a condition in C: it is thrown
\* to POST's catch, which classifies it
FetchManualsErrorAs(h, C) ==
  /\ pc[h] = "fetch"
  /\ pc' = [pc EXCEPT ![h] = "done"]
  /\ \E c \in C : resp' = [resp EXCEPT ![h] = ErrorResponse(Classify(c))]
  /\ UNCHANGED <<store, now, req, manuals, processed, results, doc,
                 attempts, nChunks, docChunks, cleanText, embeddings, chunkData, storeOps, docBefore>>
  /\ UNCHANGED <<timer, notIngest>>

\* the manuals query fails: the error reaches POST's catch, 500
FetchManualsError(h) == FetchManualsErrorAs(h, {"other"})

\* the manuals query returns no rows: 200 "No manuals found to process"
FetchManualsEmpty(h) ==
  /\ pc[h] = "fetch"
  /\ pc' = [pc EXCEPT ![h] = "done"]
  /\ resp' = [resp EXCEPT ![h] = [NoResp EXCEPT !.status = 200,
                                                 !.kind = "nomanuals"]]
  /\ UNCHANGED <<store, now, req, manuals, processed, results, doc,
                 attempts, nChunks, docChunks, cleanText, embeddings, chunkData, storeOps, docBefore>>
  /\ UNCHANGED <<timer, notIngest>>

\* the manuals query returns rows: the loop starts with the first manual
FetchManuals(h) ==
  /\ pc[h] = "fetch"
  /\ \E ms \in Registries \ {<<>>} :
       /\ manuals' = [manuals EXCEPT ![h] = ms]
       /\ StartDocument(h, TRUE, ms, 1, <<>>, ms[1].model_number,
                        ms[1].pdf_url)
  /\ UNCHANGED <<store, now, req>>
  /\ UNCHANGED <<timer, notIngest>>

\* NextManual that walks the manuals from the last to the first
NextManualFromEnd(h) ==
  /\ pc[h] = "wait"
  /\ LET m == manuals[h][Len(manuals[h]) + 1 - processed[h]] IN
       StartDocument(h, TRUE, manuals[h], processed[h], results[h],
                     m.model_number, m.pdf_url)
  /\ UNCHANGED <<store, now, req, manuals>>
  /\ UNCHANGED <<timer, notIngest>>

\* the pause between two manuals is over: the next manual starts
NextManual(h) ==
  /\ pc[h] = "wait"
  /\ LET m == manuals[h][processed[h]] IN
       StartDocument(h, TRUE, manuals[h], processed[h], results[h],
                     m.model_number, m.pdf_url)
  /\ UNCHANGED <<store, now, req, manuals>>
  /\ UNCHANGED <<timer, notIngest>>

\* a download attempt succeeds: pdfParse is called
DownloadOk(h) ==
  /\ pc[h] = "download"
  /\ pc' = [pc EXCEPT ![h] = "parse"]
  /\ UNCHANGED <<store, now, req, manuals, processed, results, doc,
                 attempts, nChunks, docChunks, cleanText, embeddings, chunkData, storeOps, docBefore, resp>>
  /\ UNCHANGED <<timer, notIngest>>

\* DownloadWait that does not grow
DownloadWaitFlat(n) == 2000

\* setTimeout(resolve, 2000 * attempts)
DownloadWait(n) == 2000 * n

\* a download attempt fails with an error of a condition in C: wait before
\* the next attempt, or give up after maxAttempts with the last error's message
DownloadFailAs(h, C) ==
  /\ pc[h] = "download"
  /\ attempts' = [attempts EXCEPT ![h] = @ + 1]
  /\ IF attempts[h] + 1 >= maxAttempts
     THEN /\ \E c \in C : Return(h, Failed(doc[h], "download", c))
          /\ UNCHANGED timer
     ELSE /\ pc' = [pc EXCEPT ![h] = "backoff"]
          /\ timer' = [timer EXCEPT ![h] = DownloadWait(attempts[h] + 1)]
          /\ UNCHANGED <<results, processed, resp>>
  /\ UNCHANGED <<store, now, req, manuals, doc, nChunks, docChunks, cleanText, embeddings,
                 chunkData, storeOps, docBefore>>
  /\ UNCHANGED notIngest

\* DownloadFail that goes on to the extraction after the last failed attempt
DownloadFailGoesOn(h) ==
  /\ pc[h] = "download"
  /\ attempts' = [attempts EXCEPT ![h] = @ + 1]
  /\ IF attempts[h] + 1 >= maxAttempts
     THEN /\ pc' = [pc EXCEPT ![h] = "parse"]
          /\ UNCHANGED <<timer, results, processed, resp>>
     ELSE /\ pc' = [pc EXCEPT ![h] = "backoff"]
          /\ timer' = [timer EXCEPT ![h] = DownloadWait(attempts[h] + 1)]
          /\ UNCHANGED <<results, processed, resp>>
  /\ UNCHANGED <<store, now, req, manuals, doc, nChunks, docChunks, cleanText,
                 embeddings, chunkData, storeOps, docBefore>>
  /\ UNCHANGED notIngest

\* a download attempt fails: wait before the next attempt, or give up after
\* maxAttempts
DownloadFail(h) == DownloadFailAs(h, {"other"})

\* DownloadRetry that forgets the failed attempts
DownloadRetryFresh(h) ==
  /\ pc[h] = "backoff"
  /\ pc' = [pc EXCEPT ![h] = "download"]
  /\ timer' = [timer EXCEPT ![h] = 0]
  /\ attempts' = [attempts EXCEPT ![h] = 0]
  /\ UNCHANGED <<store, now, req, manuals, processed, results, doc,
                 nChunks, docChunks, cleanText, embeddings, chunkData,
                 storeOps, docBefore, resp>>
  /\ UNCHANGED notIngest

\* the wait is over: the next download attempt is issued
DownloadRetry(h) ==
  /\ pc[h] = "backoff"
  /\ pc' = [pc EXCEPT ![h] = "download"]
  /\ timer' = [timer EXCEPT ![h] = 0]
  /\ UNCHANGED <<store, now, req, manuals, processed, results, doc,
                 attempts, nChunks, docChunks, cleanText, embeddings, chunkData, storeOps, docBefore,
                 resp>>
  /\ UNCHANGED notIngest

\* pdfParse throws an error of a condition in C
ParseFailAs(h, C) ==
  /\ pc[h] = "parse"
  /\ \E c \in C : Return(h, Failed(doc[h], "parse", c))
  /\ UNCHANGED <<store, now, req, manuals, doc, attempts, nChunks, docChunks, cleanText,
                 embeddings, chunkData, storeOps, docBefore>>
  /\ UNCHANGED <<timer, notIngest>>

\* pdfParse throws
ParseFail(h) == ParseFailAs(h, {"other"})

\* what pdfParse may extract from a document without usable text: text
\* undefined, or a short text of blanks (" "), control characters ("c") and
\* letters ("x")
Extracted ==
  {[defined |-> FALSE, text |-> <<>>]} \cup
  {[defined |-> TRUE, text |-> t] :
     t \in {<<>>, <<" ">>, <<"c">>, <<" ", "c", " ">>, <<"c", " ", "c">>,
            <<"c", "x">>}}

\* String.prototype.trim on such a text
RECURSIVE TrimText(_)
TrimText(t) ==
  IF t = <<>> THEN t
  ELSE IF t[1] = " " THEN TrimText(Tail(t))
  ELSE IF t[Len(t)] = " " THEN TrimText(SubSeq(t, 1, Len(t) - 1))
  ELSE t

\* the two replace calls and the trim that make cleanText
CleanText(t) == TrimText(SelectSeq(t, LAMBDA ch : ch # "c"))

\* the two tests that end processPDFDocument for want of text
NoContent(r) ==
  \/ ~r.defined
  \/ Len(TrimText(r.text)) = 0
  \/ Len(CleanText(r.text)) = 0

\* ParseEmpty that throws
ParseEmptyThrows(h) ==
  /\ pc[h] = "parse"
  /\ \E r \in Extracted :
       NoContent(r) /\ Return(h, Failed(doc[h], "empty", "other"))
  /\ UNCHANGED <<store, now, req, manuals, doc, attempts, nChunks, docChunks, cleanText,
                 embeddings, chunkData, storeOps, docBefore>>
  /\ UNCHANGED <<timer, notIngest>>

\* pdfParse returns no text, or text that is empty once cleaned: the
\* outcome is returned, not thrown
ParseEmpty(h) ==
  /\ pc[h] = "parse"
  /\ \E r \in Extracted :
       NoContent(r) /\ Return(h, Outcome(doc[h], FALSE, 0, "empty"))
  /\ UNCHANGED <<store, now, req, manuals, doc, attempts, nChunks, docChunks, cleanText,
                 embeddings, chunkData, storeOps, docBefore>>
  /\ UNCHANGED <<timer, notIngest>>

\* pdfParse returns one of the texts T: it is chunked, the chunks are limited
\* to maxChunks and the first embedding call is issued; no chunk is a failure
ParseText(h, T) ==
  \E text \in T :
    LET all == SplitTextIntoChunks(text, 1000, 100).chunks IN
      IF Len(all) = 0
      THEN /\ Return(h, Outcome(doc[h], FALSE, 0, "nochunks"))
           /\ UNCHANGED <<nChunks, docChunks, cleanText, attempts, embeddings>>
      ELSE /\ cleanText' = [cleanText EXCEPT ![h] = text]
           /\ docChunks' = [docChunks EXCEPT ![h] = LimitChunks(all)]
           /\ nChunks' = [nChunks EXCEPT ![h] = Len(LimitChunks(all))]
           /\ attempts' = [attempts EXCEPT ![h] = 0]
           /\ embeddings' = [embeddings EXCEPT ![h] = <<>>]
           /\ pc' = [pc EXCEPT ![h] = "embed"]
           /\ UNCHANGED <<results, processed, resp>>

\* pdfParse returns the text of a document of a few chunks
ParseOk(h) ==
  /\ pc[h] = "parse"
  /\ ParseText(h, IngestTexts)
  /\ UNCHANGED <<store, now, req, manuals, doc, chunkData, storeOps, docBefore>>
  /\ UNCHANGED <<timer, notIngest>>

\* pdfParse returns the text of a document of up to EmbedChunks chunks
ParseSome(h) ==
  /\ pc[h] = "parse"
  /\ ParseText(h, EmbedTexts)
  /\ UNCHANGED <<store, now, req, manuals, doc, chunkData, storeOps, docBefore>>
  /\ UNCHANGED <<timer, notIngest>>

\* pdfParse returns the text of a document of more than maxChunks chunks
ParseLong(h) ==
  /\ pc[h] = "parse"
  /\ ParseText(h, LongIngestTexts)
  /\ UNCHANGED <<store, now, req, manuals, doc, chunkData, storeOps, docBefore>>
  /\ UNCHANGED <<timer, notIngest>>

\* EmbeddingsDone without the check that some embedding is valid
EmbeddingsDoneUnchecked(h, embs) ==
  /\ pc' = [pc EXCEPT ![h] = "delete"]
  /\ chunkData' = [chunkData EXCEPT ![h] = ChunkData(doc[h], docChunks[h], embs, now)]
  /\ now' = now + 1
  /\ UNCHANGED <<results, processed, resp>>

\* generateEmbeddings after the last chunk: fail when no embedding is valid,
\* else processPDFDocument builds chunkData and issues the delete
EmbeddingsDone(h, embs) ==
  IF Len(ValidEmbeddings(embs)) = 0
  THEN /\ Return(h, Failed(doc[h], "embed", "other"))
       /\ UNCHANGED <<now, chunkData>>
  ELSE /\ pc' = [pc EXCEPT ![h] = "delete"]
       /\ chunkData' = [chunkData EXCEPT ![h] = ChunkData(doc[h], docChunks[h], embs, now)]
       /\ now' = now + 1
       /\ UNCHANGED <<results, processed, resp>>

\* PushEmbedding that leaves the attempts counter as it is
PushEmbeddingSharedBudget(h, e) ==
  LET embs == Append(embeddings[h], e) IN
    /\ embeddings' = [embeddings EXCEPT ![h] = embs]
    /\ attempts' = attempts
    /\ IF Len(embs) < nChunks[h]
       THEN UNCHANGED <<pc, results, processed, resp, now, chunkData>>
       ELSE EmbeddingsDone(h, embs)

\* the embedding of the current chunk is settled as e: next chunk, or done
PushEmbedding(h, e) ==
  LET embs == Append(embeddings[h], e) IN
    /\ embeddings' = [embeddings EXCEPT ![h] = embs]
    /\ attempts' = [attempts EXCEPT ![h] = 0]
    /\ IF Len(embs) < nChunks[h]
       THEN UNCHANGED <<pc, results, processed, resp, now, chunkData>>
       ELSE EmbeddingsDone(h, embs)

\* embedContent returns a vector for the current chunk
EmbedOk(h, V) ==
  /\ pc[h] = "embed"
  /\ \E v \in V : PushEmbedding(h, v)
  /\ UNCHANGED <<store, req, manuals, doc, nChunks, docChunks, cleanText, storeOps, docBefore>>
  /\ UNCHANGED <<timer, notIngest>>

\* embedContent fails (or returns no values): retry after the backoff, or
\* record the empty vector after maxRetries
EmbedFail(h) ==
  /\ pc[h] = "embed"
  /\ IF attempts[h] + 1 >= maxRetries
     THEN PushEmbedding(h, <<>>)
     ELSE /\ attempts' = [attempts EXCEPT ![h] = @ + 1]
          /\ UNCHANGED <<pc, results, processed, resp, now, chunkData,
                         embeddings>>
  /\ UNCHANGED <<store, req, manuals, doc, nChunks, docChunks, cleanText, storeOps, docBefore>>
  /\ UNCHANGED <<timer, notIngest>>

\* the delete of the document's rows succeeds: the insert is issued
DeleteOk(h) ==
  /\ pc[h] = "delete"
  /\ store' = DeleteRows(store, doc[h])
  /\ storeOps' = [storeOps EXCEPT ![h] = @ + 1]
  /\ UNCHANGED docBefore
  /\ pc' = [pc EXCEPT ![h] = "insert"]
  /\ UNCHANGED <<now, req, manuals, processed, results, doc, attempts,
                 nChunks, docChunks, cleanText, embeddings, chunkData, resp>>
  /\ UNCHANGED <<timer, notIngest>>

\* the delete reports an error: it is logged and the insert is issued
DeleteError(h) ==
  /\ pc[h] = "delete"
  /\ storeOps' = [storeOps EXCEPT ![h] = @ + 1]
  /\ UNCHANGED docBefore
  /\ pc' = [pc EXCEPT ![h] = "insert"]
  /\ UNCHANGED <<store, now, req, manuals, processed, results, doc,
                 attempts, nChunks, docChunks, cleanText, embeddings, chunkData, resp>>
  /\ UNCHANGED <<timer, notIngest>>

\* the insert succeeds: processPDFDocument reports success
InsertOk(h) ==
  /\ pc[h] = "insert"
  /\ store' = InsertRows(store, chunkData[h])
  /\ storeOps' = [storeOps EXCEPT ![h] = @ + 1]
  /\ UNCHANGED docBefore
  /\ Return(h, Outcome(doc[h], TRUE, nChunks[h], "stored"))
  /\ UNCHANGED <<now, req, manuals, doc, attempts, nChunks, docChunks, cleanText, embeddings,
                 chunkData>>
  /\ UNCHANGED <<timer, notIngest>>

\* the insert reports an error of a condition in C: it is thrown,
\* processPDFDocument reports failure
InsertErrorAs(h, C) ==
  /\ pc[h] = "insert"
  /\ storeOps' = [storeOps EXCEPT ![h] = @ + 1]
  /\ UNCHANGED docBefore
  /\ \E c \in C : Return(h, Failed(doc[h], "store", c))
  /\ UNCHANGED <<store, now, req, manuals, doc, attempts, nChunks, docChunks, cleanText,
                 embeddings, chunkData>>
  /\ UNCHANGED <<timer, notIngest>>

\* the insert reports an error: it is thrown, processPDFDocument reports
\* failure
InsertError(h) == InsertErrorAs(h, {"other"})

\* the continuations of ingestion handler h, the provider answering from V
Steps(h, V) ==
  \/ FetchManualsError(h)
  \/ FetchManualsEmpty(h)
  \/ FetchManuals(h)
  \/ NextManual(h)
  \/ DownloadOk(h)
  \/ DownloadFail(h)
  \/ DownloadRetry(h)
  \/ ParseFail(h)
  \/ ParseEmpty(h)
  \/ ParseOk(h)
  \/ EmbedOk(h, V)
  \/ EmbedFail(h)
  \/ DeleteOk(h)
  \/ DeleteError(h)
  \/ InsertOk(h)
  \/ InsertError(h)

\* every step of ingestion handler h, requests included
Ingest(h, V) ==
  \/ PostInvalid(h)
  \/ PostSingle(h)
  \/ PostBatch(h)
  \/ Steps(h, V)

\* handler h serving single-document requests only
IngestSingle(h, V) ==
  \/ PostSingle(h)
  \/ Steps(h, V)

\* ---------------------------------------------------------------- retrieval
RECURSIVE SumTo(_, _)
SumTo(f, n) == IF n = 0 THEN 0 ELSE f[n] + SumTo(f, n - 1)

\* a similarity that is not a number: a zero norm
NaN == [dot |-> 0, normA |-> 0, normB |-> 0]

\* the loop of cosineSimilarity: dot / (sqrt(normA) * sqrt(normB)), kept exact
\* as the three sums over i < vecA.length; a missing vecB[i] is undefined and
\* makes the sums NaN
CosineSimilarity(vecA, vecB) ==
  IF Len(vecB) < Len(vecA) THEN NaN
  ELSE
  [dot |-> SumTo([i \in 1..Len(vecA) |-> vecA[i] * vecB[i]], Len(vecA)),
   normA |-> SumTo([i \in 1..Len(vecA) |-> vecA[i] * vecA[i]], Len(vecA)),
   normB |-> SumTo([i \in 1..Len(vecA) |-> vecB[i] * vecB[i]], Len(vecA))]

\* SimilarityThrows that lets an empty stored vector through
SimilarityThrowsUnlessEmpty(vecA, vecB) ==
  Len(vecA) # Len(vecB) /\ Len(vecB) # 0

\* cosineSimilarity throws when the lengths differ
SimilarityThrows(vecA, vecB) == Len(vecA) # Len(vecB)

\* the number 0 as a similarity
Zero == [dot |-> 0, normA |-> 1, normB |-> 1]

\* (similarity || 0): NaN (a zero norm) and 0 both count as 0
OrZero(x) == IF x.normA * x.normB = 0 THEN Zero ELSE x

\* sign(x) * x^2 of a similarity x, as a fraction num / den with den > 0
SignedSquareNum(x) == IF x.dot < 0 THEN 0 - x.dot * x.dot ELSE x.dot * x.dot
SignedSquareDen(x) == x.normA * x.normB

\* x < y for two similarities that are numbers
SimLess(x, y) ==
  SignedSquareNum(x) * SignedSquareDen(y) < SignedSquareNum(y) * SignedSquareDen(x)

\* Before with the operands of the subtraction swapped: an ascending sort
BeforeAscending(a, b) == SimLess(OrZero(a.similarity), OrZero(b.similarity))

\* the comparator of the sort is negative: a goes before b
Before(a, b) == SimLess(OrZero(b.similarity), OrZero(a.similarity))

\* Array.prototype.sort with that comparator: stable, so an element goes
\* after the elements that do not have to come after it
InsertSorted(s, x) ==
  LET p == Cardinality({i \in 1..Len(s) : ~Before(x, s[i])})
  IN SubSeq(s, 1, p) \o <<x>> \o SubSeq(s, p + 1, Len(s))

RECURSIVE SortBySimilarity(_)
SortBySimilarity(s) ==
  IF s = <<>> THEN <<>>
  ELSE InsertSorted(SortBySimilarity(SubSeq(s, 1, Len(s) - 1)), s[Len(s)])

\* .slice(0, limit)
Slice(s, limit) == SubSeq(s, 1, IF Len(s) < limit THEN Len(s) ELSE limit)

\* QueryRows that never applies the filter
QueryRowsUnfiltered(t, modelNumber) == t

\* the query of retrieveRelevantChunks: all rows, or the rows of modelNumber
\* when it is truthy
QueryRows(t, modelNumber) ==
  IF modelNumber # "" THEN RowsOf(t, modelNumber) ELSE t

\* the map of retrieveRelevantChunks for row i of data: the chunk with its
\* similarity (row is history: the place in data the chunk was made from)
Scored(data, queryEmbedding, i) ==
  [model_number |-> data[i].model_number,
   chunk_index |-> data[i].chunk_index,
   content |-> data[i].content,
   similarity |-> CosineSimilarity(queryEmbedding, Parse(data[i].embedding)),
   row |-> i]

\* rows whose map callback does not throw, in data's order: the filter of the
\* nulls
NotNull(data, queryEmbedding) ==
  SelectSeq([i \in 1..Len(data) |-> i],
            LAMBDA i : ~SimilarityThrows(queryEmbedding,
                                         Parse(data[i].embedding)))

\* retrieveRelevantChunks on the rows read
RelevantChunks(data, queryEmbedding, limit) ==
  LET kept == NotNull(data, queryEmbedding)
      scored == [k \in 1..Len(kept) |-> Scored(data, queryEmbedding, kept[k])]
  IN Slice(SortBySimilarity(scored), limit)

\* chunk.content.substring(0, 200) + '...': the part of the content kept,
\* and the text appended to it
Preview(content) == [head |-> Substring(content, 200), suffix |-> "..."]

\* Sources in the opposite order
SourcesReversed(chunks) ==
  [k \in 1..Len(chunks) |->
    [model_number |-> chunks[Len(chunks) + 1 - k].model_number,
     similarity |-> chunks[Len(chunks) + 1 - k].similarity,
     preview |-> Preview(chunks[Len(chunks) + 1 - k].content)]]

\* sources of the Ask response
Sources(chunks) ==
  [k \in 1..Len(chunks) |->
    [model_number |-> chunks[k].model_number,
     similarity |-> chunks[k].similarity,
     preview |-> Preview(chunks[k].content)]]

NoAskReq == [kind |-> "none", model_number |-> "", limit |-> 0]
NoAskResp == [status |-> 0, answer |-> "none", text |-> "", sources |-> <<>>,
              chunksFound |-> 0]
AskError(code) == [status |-> code, answer |-> "none", text |-> "",
                   sources |-> <<>>, chunksFound |-> 0]

\* what generateContent gives back: it throws, or returns candidates, each
\* the texts of its parts
NoCandidate == [threw |-> FALSE, candidates |-> <<>>]
Threw == [threw |-> TRUE, candidates |-> <<>>]
Candidate(parts) == [threw |-> FALSE, candidates |-> <<parts>>]
GenResults ==
  {NoCandidate, Candidate(<<>>), Candidate(<<"">>), Candidate(<<"a">>),
   Candidate(<<"b">>)}
NoCall == [prompt |-> <<>>, result |-> NoCandidate]

\* GeneratedText that falls back to a text of its own
GeneratedTextOrDefault(r) ==
  IF Len(r.candidates) = 0 THEN "sorry"
  ELSE IF Len(r.candidates[1]) = 0 THEN "sorry"
  ELSE IF r.candidates[1][1] = "" THEN "sorry"
  ELSE r.candidates[1][1]

\* result.candidates?.[0]?.content?.parts?.[0]?.text, "" when undefined
GeneratedText(r) ==
  IF Len(r.candidates) = 0 THEN ""
  ELSE IF Len(r.candidates[1]) = 0 THEN ""
  ELSE r.candidates[1][1]

\* contextText of the prompt: one labelled entry per chunk of the context
ContextText(context) ==
  [k \in 1..Len(context) |->
    [label |-> k, model_number |-> context[k].model_number,
     content |-> context[k].content]]

NotSeen == [read |-> FALSE, quiet |-> FALSE, racing |-> FALSE, rows |-> <<>>]

\* a request enters: the locals of the previous one are gone
AskEnter(r, p, response) ==
  /\ askPc' = p
  /\ askReq' = r
  /\ askQ' = <<>>
  /\ askData' = <<>>
  /\ askChunks' = <<>>
  /\ askGen' = FALSE
  /\ askCall' = NoCall
  /\ askSeen' = NotSeen
  /\ askResp' = response
  /\ UNCHANGED notAsk

\* POST /api/rag/ask without a usable question: 400
AskInvalid ==
  /\ askPc \in {"idle", "done"}
  /\ AskEnter([kind |-> "ask", model_number |-> "", limit |-> 0], "done",
              AskError(400))

\* POST /api/rag/ask {question, model_number?}: the query embedding is
\* requested; the Ask operation retrieves the top 5
AskPost ==
  /\ askPc \in {"idle", "done"}
  /\ \E m \in Docs \cup {NoDoc} :
       AskEnter([kind |-> "ask", model_number |-> m, limit |-> 5],
                "embedding", NoAskResp)

\* GET /api/rag/ask?test=...: the health check retrieves the top 2 of all
HealthGet ==
  /\ askPc \in {"idle", "done"}
  /\ AskEnter([kind |-> "health", model_number |-> "", limit |-> 2],
              "embedding", NoAskResp)

\* generateQueryEmbedding returns a vector: the store is queried
QueryEmbedOk(Q) ==
  /\ askPc = "embedding"
  /\ \E q \in Q : askQ' = q
  /\ askPc' = "retrieving"
  /\ UNCHANGED <<askReq, askData, askChunks, askGen, askCall, askSeen, askResp>>
  /\ UNCHANGED notAsk

\* generateQueryEmbedding throws: 500
QueryEmbedFail ==
  /\ askPc = "embedding"
  /\ askPc' = "done"
  /\ askResp' = AskError(500)
  /\ UNCHANGED <<askReq, askQ, askData, askChunks, askGen, askCall, askSeen>>
  /\ UNCHANGED notAsk

\* the store query reports an error: it is thrown, 500
RetrieveError ==
  /\ askPc = "retrieving"
  /\ askPc' = "done"
  /\ askResp' = AskError(500)
  /\ UNCHANGED <<askReq, askQ, askData, askChunks, askGen, askCall, askSeen>>
  /\ UNCHANGED notAsk

\* AfterRetrieval without the branch for an empty result
AfterRetrievalNoCanned(chunks) ==
  IF askReq.kind = "health"
  THEN /\ askPc' = "done"
       /\ askResp' = [status |-> 200, answer |-> "none", text |-> "",
                      sources |-> <<>>, chunksFound |-> Len(chunks)]
  ELSE /\ askPc' = "generating"
       /\ askResp' = askResp

\* what POST / GET do with relevantChunks: the health check reports their
\* number; Ask answers with the canned message when there are none, and calls
\* the generation provider otherwise
AfterRetrieval(chunks) ==
  IF askReq.kind = "health"
  THEN /\ askPc' = "done"
       /\ askResp' = [status |-> 200, answer |-> "none", text |-> "",
                      sources |-> <<>>, chunksFound |-> Len(chunks)]
  ELSE IF Len(chunks) = 0
  THEN /\ askPc' = "done"
       /\ askResp' = [status |-> 200, answer |-> "canned", text |-> "",
                      sources |-> <<>>, chunksFound |-> 0]
  ELSE /\ askPc' = "generating"
       /\ askResp' = askResp

\* processPDFDocument of handler h has returned and POST has its outcome
Reported(h) ==
  /\ pc[h] \in {"wait", "done"}
  /\ IF req[h].process_all THEN results[h] # <<>> ELSE resp[h].kind = "single"

\* that outcome
LastOutcome(h) ==
  IF req[h].process_all THEN results[h][Len(results[h])]
  ELSE resp[h].results[1]

\* history of a store query for document m: whether an ingestion of m has
\* deleted and not yet inserted (racing), and whether the last ingestion of m
\* completed with success and none is running (quiet), with the rows it wrote
Seen(m) ==
  LET done == {h \in Handlers : Reported(h) /\ doc[h] = m}
      quiet == /\ Cardinality(done) = 1
               /\ \A h \in done : LastOutcome(h).success
               /\ \A h \in Handlers \ done : doc[h] # m
  IN [read |-> TRUE,
      quiet |-> quiet,
      racing |-> \E h \in Handlers : doc[h] = m /\ pc[h] = "insert",
      rows |-> IF quiet THEN chunkData[CHOOSE h \in done : TRUE] ELSE <<>>]

\* the store query returns rows: they are scored, sorted and cut
Retrieve ==
  /\ askPc = "retrieving"
  /\ LET data == QueryRows(store, askReq.model_number)
         chunks == IF Len(data) = 0 THEN <<>>
                   ELSE RelevantChunks(data, askQ, askReq.limit)
     IN /\ askData' = data
        /\ askChunks' = chunks
        /\ askSeen' = Seen(askReq.model_number)
        /\ AfterRetrieval(chunks)
  /\ UNCHANGED <<askReq, askQ, askGen, askCall>>
  /\ UNCHANGED notAsk

\* generateContent returns text: 200 with the answer and the sources
GenerateOk ==
  /\ askPc = "generating"
  /\ \E r \in GenResults :
       /\ GeneratedText(r) # ""
       /\ askCall' = [prompt |-> ContextText(askChunks), result |-> r]
       /\ askResp' = [status |-> 200, answer |-> "generated",
                      text |-> GeneratedText(r),
                      sources |-> Sources(askChunks), chunksFound |-> 0]
  /\ askGen' = TRUE
  /\ askPc' = "done"
  /\ UNCHANGED <<askReq, askQ, askData, askChunks, askSeen>>
  /\ UNCHANGED notAsk

\* generateContent throws or returns no text: 500
GenerateFail ==
  /\ askPc = "generating"
  /\ \E r \in GenResults \cup {Threw} :
       /\ r.threw \/ GeneratedText(r) = ""
       /\ askCall' = [prompt |-> ContextText(askChunks), result |-> r]
  /\ askGen' = TRUE
  /\ askPc' = "done"
  /\ askResp' = AskError(500)
  /\ UNCHANGED <<askReq, askQ, askData, askChunks, askSeen>>
  /\ UNCHANGED notAsk

\* every step of the ask handler, the provider answering from Q
Ask(Q) ==
  \/ AskInvalid
  \/ AskPost
  \/ HealthGet
  \/ QueryEmbedOk(Q)
  \/ QueryEmbedFail
  \/ RetrieveError
  \/ Retrieve
  \/ GenerateOk
  \/ GenerateFail

\* --------------------------------------------------------------------- wipe
\* a count that the store did not return
Null == -1
\* history: rows in the table when the request entered, store calls of the
\* request that reported an error, rows met by the last successful wipe
\* before (Null when there was none), rows the delete removed
NoWipeLog == [rows |-> 0, errors |-> {}, prior |-> Null, removed |-> 0]
NoWipeResp == [status |-> 0, success |-> FALSE, deletedCount |-> 0,
               beforeCount |-> 0, afterCount |-> 0]

\* (count || 0)
CountOrZero(c) == IF c = Null THEN 0 ELSE c

\* delete that removes no row
DeleteNoRow(t) == t

\* supabase.from('manual_chunks').delete().neq('id', 0): every row
DeleteAll(t) == <<>>

\* the success response of the wipe
WipeSuccess(beforeCount, afterCount) ==
  [status |-> 200, success |-> TRUE,
   deletedCount |-> CountOrZero(beforeCount) - CountOrZero(afterCount),
   beforeCount |-> CountOrZero(beforeCount),
   afterCount |-> CountOrZero(afterCount)]

\* POST /api/rag/clean: the count before deletion is requested
WipePost ==
  /\ wipePc \in {"idle", "done"}
  /\ wipePc' = "before"
  /\ wipeBefore' = Null
  /\ wipeLog' = [rows |-> Len(store), errors |-> {},
                 prior |-> IF wipeResp.success THEN wipeLog.rows
                           ELSE wipeLog.prior,
                 removed |-> 0]
  /\ wipeResp' = NoWipeResp
  /\ UNCHANGED store
  /\ UNCHANGED notWipe

\* the count before deletion returns: the delete is issued
CountBeforeOk ==
  /\ wipePc = "before"
  /\ wipeBefore' = Len(store)
  /\ wipePc' = "delete"
  /\ UNCHANGED <<store, wipeLog, wipeResp>>
  /\ UNCHANGED notWipe

\* the count before deletion reports an error: it is logged and the delete
\* is issued
CountBeforeError ==
  /\ wipePc = "before"
  /\ wipeBefore' = Null
  /\ wipeLog' = [wipeLog EXCEPT !.errors = @ \cup {"before"}]
  /\ wipePc' = "delete"
  /\ UNCHANGED <<store, wipeResp>>
  /\ UNCHANGED notWipe

\* the delete succeeds: the verifying count is requested
WipeDeleteOk ==
  /\ wipePc = "delete"
  /\ store' = DeleteAll(store)
  /\ wipeLog' = [wipeLog EXCEPT !.removed = Len(store) - Len(DeleteAll(store))]
  /\ wipePc' = "after"
  /\ UNCHANGED <<wipeBefore, wipeResp>>
  /\ UNCHANGED notWipe

\* the delete reports an error: it is thrown, 500
WipeDeleteError ==
  /\ wipePc = "delete"
  /\ wipeLog' = [wipeLog EXCEPT !.errors = @ \cup {"delete"}]
  /\ wipePc' = "done"
  /\ wipeResp' = [NoWipeResp EXCEPT !.status = 500]
  /\ UNCHANGED <<store, wipeBefore>>
  /\ UNCHANGED notWipe

\* the verifying count returns: the success response
CountAfterOk ==
  /\ wipePc = "after"
  /\ wipePc' = "done"
  /\ wipeResp' = WipeSuccess(wipeBefore, Len(store))
  /\ UNCHANGED <<store, wipeBefore, wipeLog>>
  /\ UNCHANGED notWipe

\* the verifying count reports an error: it is logged, the success response
CountAfterError ==
  /\ wipePc = "after"
  /\ wipeLog' = [wipeLog EXCEPT !.errors = @ \cup {"after"}]
  /\ wipePc' = "done"
  /\ wipeResp' = WipeSuccess(wipeBefore, Null)
  /\ UNCHANGED <<store, wipeBefore>>
  /\ UNCHANGED notWipe

\* every step of the wipe handler
Wipe ==
  \/ WipePost
  \/ CountBeforeOk
  \/ CountBeforeError
  \/ WipeDeleteOk
  \/ WipeDeleteError
  \/ CountAfterOk
  \/ CountAfterError

\* ------------------------------------------------------------ specifications
InitIngest ==
  /\ now = 1
  /\ pc = [h \in Handlers |-> "idle"]
  /\ req = [h \in Handlers |->
              [process_all |-> FALSE, model_number |-> "", pdf_url |-> ""]]
  /\ manuals = [h \in Handlers |-> <<>>]
  /\ processed = [h \in Handlers |-> 0]
  /\ results = [h \in Handlers |-> <<>>]
  /\ doc = [h \in Handlers |-> NoDoc]
  /\ attempts = [h \in Handlers |-> 0]
  /\ nChunks = [h \in Handlers |-> 0]
  /\ cleanText = [h \in Handlers |-> PlainText(0)]
  /\ docChunks = [h \in Handlers |-> <<>>]
  /\ timer = [h \in Handlers |-> 0]
  /\ embeddings = [h \in Handlers |-> <<>>]
  /\ chunkData = [h \in Handlers |-> <<>>]
  /\ storeOps = [h \in Handlers |-> 0]
  /\ docBefore = [h \in Handlers |-> <<>>]
  /\ resp = [h \in Handlers |-> NoResp]

InitAsk ==
  /\ askPc = "idle"
  /\ askReq = NoAskReq
  /\ askQ = <<>>
  /\ askData = <<>>
  /\ askChunks = <<>>
  /\ askGen = FALSE
  /\ askCall = NoCall
  /\ askSeen = NotSeen
  /\ askResp = NoAskResp

\* no chunker call is observed
InitChunker ==
  /\ chunkIn = [text |-> PlainText(0), maxChunkSize |-> 0, overlap |-> 0]
  /\ chunkOut = NoChunks

InitWipe ==
  /\ wipePc = "idle"
  /\ wipeBefore = Null
  /\ wipeLog = NoWipeLog
  /\ wipeResp = NoWipeResp

\* the deployment starts with an empty table
Init ==
  /\ store = <<>>
  /\ InitIngest
  /\ InitAsk
  /\ InitChunker
  /\ InitWipe

\* one ingestion request at a time
Next == Ingest(1, IngestVecs)

Spec == Init /\ [][Next]_vars

\* two ingestion requests in flight at the same time: any request on the
\* first handler, a single-document request on the second
NextConc == Ingest(1, IngestVecs) \/ IngestSingle(2, IngestVecs)

SpecConc == Init /\ [][NextConc]_vars

\* one ingestion request at a time, and questions asked meanwhile
NextRace == Ingest(1, IngestVecs) \/ Ask(ReaderVecs)

SpecRace == Init /\ [][NextRace]_vars

\* the chunks of the text of k chunks
ChunksOf(k) == SplitTextIntoChunks(TextWith(k), 1000, 100).chunks

\* embeddings generateEmbeddings can return for one document: one vector per
\* chunk, empty for a failed chunk, at least one not empty
EmbeddingLists ==
  {e \in UNION {[1..n -> DocVecs \cup {<<>>}] : n \in 1..MaxChunks} :
     Len(ValidEmbeddings(e)) > 0}

\* tables that ingestion leaves behind: for each document either no rows or
\* the rows of one run
StoreInputs ==
  {(IF e1 = <<>> THEN <<>> ELSE ChunkData("M1", ChunksOf(Len(e1)), e1, 1)) \o
   (IF e2 = <<>> THEN <<>> ELSE ChunkData("M2", ChunksOf(Len(e2)), e2, 2)) :
     e1 \in EmbeddingLists \cup {<<>>}, e2 \in EmbeddingLists \cup {<<>>}}

\* questions asked of a table that ingestion left behind
InitRetrieval ==
  /\ store \in StoreInputs
  /\ InitIngest
  /\ InitAsk
  /\ InitChunker
  /\ InitWipe

NextAsk == Ask(QueryVecs)

SpecAsk == InitRetrieval /\ [][NextAsk]_vars

\* splitTextIntoChunks called on any of the inputs
InitSplit ==
  /\ store = <<>>
  /\ InitIngest
  /\ InitAsk
  /\ chunkIn \in ChunkInputs
  /\ chunkOut = NoChunks
  /\ InitWipe

NextSplit == SplitText

SpecSplit == InitSplit /\ [][NextSplit]_vars

\* single-document ingestions of documents of up to EmbedChunks chunks, every
\* call before the embedding stage succeeding
NextEmbed ==
  \/ PostSingle(1)
  \/ DownloadOk(1)
  \/ ParseSome(1)
  \/ EmbedOk(1, IngestVecs)
  \/ EmbedFail(1)
  \/ DeleteOk(1)
  \/ InsertOk(1)
  \/ InsertError(1)

SpecEmbed == Init /\ [][NextEmbed]_vars

\* single-document ingestions of documents of more than maxChunks chunks,
\* every external call succeeding
NextLong ==
  \/ PostSingle(1)
  \/ DownloadOk(1)
  \/ ParseLong(1)
  \/ EmbedOk(1, IngestVecs)
  \/ DeleteOk(1)
  \/ InsertOk(1)

SpecLong == Init /\ [][NextLong]_vars

\* requests of the workload with fairness
PostSingleLive(h) ==
  /\ now <= LiveRuns
  /\ PostSingle(h)

PostBatchLive(h) ==
  /\ now <= LiveRuns
  /\ PostBatch(h)

\* one ingestion request at a time, every external call and every timer of a
\* request in flight eventually returning
NextLive ==
  \/ PostInvalid(1)
  \/ PostSingleLive(1)
  \/ PostBatchLive(1)
  \/ Steps(1, IngestVecs)

SpecLive == Init /\ [][NextLive]_vars /\ WF_vars(Steps(1, IngestVecs))

\* wipes of a table that ingestion left behind, no ingestion running
NextWipe == Wipe

SpecWipe == InitRetrieval /\ [][NextWipe]_vars

\* the wipe while single-document ingestions run (LiveRuns of them)
NextWipeRace ==
  \/ Wipe
  \/ PostSingleLive(1)
  \/ DownloadOk(1)
  \/ ParseOk(1)
  \/ EmbedOk(1, IngestVecs)
  \/ EmbedFail(1)
  \/ DeleteOk(1)
  \/ InsertOk(1)

SpecWipeRace == Init /\ [][NextWipeRace]_vars

\* one handler whose failures are of every condition POST's catch tells apart
NextClass ==
  \/ PostSingle(1)
  \/ PostBatch(1)
  \/ FetchManualsErrorAs(1, Conditions)
  \/ DownloadOk(1)
  \/ DownloadFailAs(1, Conditions)
  \/ DownloadRetry(1)
  \/ ParseFailAs(1, Conditions)
  \/ ParseEmpty(1)
  \/ ParseOk(1)
  \/ EmbedOk(1, IngestVecs)
  \/ EmbedFail(1)
  \/ DeleteOk(1)
  \/ InsertOk(1)
  \/ InsertErrorAs(1, Conditions)

SpecClass == Init /\ [][NextClass]_vars

\* ------------------------------------------------------------------ claims
AllEmpty(embs) == \A i \in 1..Len(embs) : embs[i] = <<>>

\* timestamps of the runs that have rows in table t
RunsIn(t) == {t[i].processed_at : i \in 1..Len(t)}

\* C1: whenever processPDFDocument has reported success with n chunks for a
\* document, the table holds for that document exactly the n rows of that run
\* (chunk_index 0..n-1, each once) and no row of an earlier run, whatever the
\* delete step answered.
C1_ReplaceSemantics ==
  \A h \in Handlers :
    (Reported(h) /\ LastOutcome(h).success) =>
      /\ RowsOf(store, doc[h]) = chunkData[h]
      /\ Len(chunkData[h]) = LastOutcome(h).chunksProcessed
      /\ \A i \in 1..Len(chunkData[h]) : chunkData[h][i].chunk_index = i - 1

\* C2: in a batch, outcome i belongs to manual i while the loop runs; the
\* summary holds one outcome per manual read, successful + failed = total =
\* number of manuals, and every chunk index of every successful document has
\* a row in the table.
C2_BatchIsolation ==
  \A h \in Handlers :
    (req[h].process_all /\ manuals[h] # <<>>) =>
      /\ Len(results[h]) = (IF Reported(h) /\ pc[h] = "done"
                            THEN processed[h] ELSE processed[h] - 1)
      /\ \A i \in 1..Len(results[h]) :
           results[h][i].modelNumber = manuals[h][i].model_number
      /\ pc[h] = "done" =>
           /\ resp[h].kind = "batch"
           /\ resp[h].results = results[h]
           /\ resp[h].total = Len(manuals[h])
           /\ resp[h].successful + resp[h].failed = resp[h].total
           /\ resp[h].successful =
                Cardinality({i \in 1..Len(results[h]) : results[h][i].success})
           /\ \A i \in 1..Len(results[h]) :
                results[h][i].success =>
                  /\ results[h][i].chunksProcessed >= 1
                  /\ \A k \in 0..(results[h][i].chunksProcessed - 1) :
                       \E j \in 1..Len(store) :
                         /\ store[j].model_number = results[h][i].modelNumber
                         /\ store[j].chunk_index = k

\* a batch whose first document failed in the download stage and whose second
\* document was stored
C2_Witness ==
  \E h \in Handlers :
    /\ pc[h] = "done"
    /\ resp[h].kind = "batch"
    /\ Len(resp[h].results) = 2
    /\ resp[h].results[1].message = "download"
    /\ resp[h].results[2].success
    /\ resp[h].successful = 1
    /\ resp[h].failed = 1

\* C3: the table is written by one ingestion at a time: two runs are never
\* both between their delete and their insert, and once two single-document
\* ingestions of one document have both reported success the table holds the
\* rows of exactly one of them for that document.
C3_OneWriterAtATime ==
  /\ ~(pc[1] = "insert" /\ pc[2] = "insert")
  /\ (/\ Reported(1) /\ Reported(2)
      /\ doc[1] = doc[2]
      /\ LastOutcome(1).success /\ LastOutcome(2).success)
       => RowsOf(store, doc[1]) \in {chunkData[1], chunkData[2]}

\* C4: a filtered read that meets no running ingestion of its document, the
\* last ingestion of which completed with success, observes exactly the rows
\* that ingestion wrote.
C4_QuietReadSeesLastRun ==
  (askReq.kind = "ask" /\ askSeen.read /\ askSeen.quiet) =>
    askData = askSeen.rows

\* the race of C4: a read between the delete and the insert of a re-ingestion
\* observed no row of a document that has rows once the insert is done
C4_RaceObserved ==
  /\ askReq.kind = "ask"
  /\ askReq.model_number \in Docs
  /\ askSeen.read
  /\ askSeen.racing
  /\ askData = <<>>
  /\ RowsOf(store, askReq.model_number) # <<>>

\* C5: when every embedding attempt of every chunk of a document has failed,
\* the run is over with success:false, it has issued neither the delete nor
\* the insert, and the table holds no run all of whose embeddings are empty.
C5_AllEmbeddingsFailed ==
  /\ \A h \in Handlers :
       (nChunks[h] >= 1 /\ Len(embeddings[h]) = nChunks[h]
          /\ AllEmpty(embeddings[h])) =>
         /\ Reported(h)
         /\ ~LastOutcome(h).success
         /\ LastOutcome(h).modelNumber = doc[h]
         /\ storeOps[h] = 0
         /\ chunkData[h] = <<>>
  /\ \A t \in RunsIn(store) :
       \E i \in 1..Len(store) :
         store[i].processed_at = t /\ store[i].embedding # <<>>

\* every chunk of a two-chunk document failed, and the rows of the document's
\* earlier ingestion are still in the table
C5_Witness ==
  \E h \in Handlers :
    /\ nChunks[h] = 2
    /\ Len(embeddings[h]) = 2
    /\ AllEmpty(embeddings[h])
    /\ Reported(h)
    /\ RowsOf(store, doc[h]) # <<>>

\* the retrieval of the request has run
Retrieved == askSeen.read /\ askPc \in {"generating", "done"}

\* rows of askData with a non-empty embedding of the query's length
Scorable == {i \in 1..Len(askData) :
               /\ Len(askData[i].embedding) # 0
               /\ Len(askData[i].embedding) = Len(askQ)}

\* rows of askData that relevantChunks was made from
ReturnedRows == {askChunks[k].row : k \in 1..Len(askChunks)}

\* C6: no chunk returned by retrieveRelevantChunks, and no source of the
\* response, was made from a row whose embedding is the empty vector.
C6_EmptyEmbeddingNeverReturned ==
  Retrieved =>
    /\ \A k \in 1..Len(askChunks) :
         /\ askChunks[k].row \in 1..Len(askData)
         /\ askData[askChunks[k].row].embedding # Stringify(<<>>)
    /\ Len(askResp.sources) <= Len(askChunks)
    /\ \A k \in 1..Len(askResp.sources) :
         askResp.sources[k].model_number = askChunks[k].model_number

\* rows with an empty embedding were read and the answer was generated from
\* the other rows
C6_Witness ==
  /\ Retrieved
  /\ \E i \in 1..Len(askData) : askData[i].embedding = <<>>
  /\ askResp.answer = "generated"
  /\ askResp.sources # <<>>

\* C7: when a row read for a question has a non-empty embedding whose length
\* differs from the query embedding's, the Ask operation ends with an error
\* response.
C7_MismatchIsHardError ==
  (/\ askReq.kind = "ask"
   /\ Retrieved
   /\ \E i \in 1..Len(askData) :
        /\ Len(askData[i].embedding) # 0
        /\ Len(askData[i].embedding) # Len(askQ))
    => (askPc = "done" /\ askResp.status = 500)

\* C8: with a document filter, every returned chunk and every source of the
\* response carries the filter's document id.
C8_FilterRespected ==
  (Retrieved /\ askReq.model_number # "") =>
    /\ \A k \in 1..Len(askChunks) :
         askChunks[k].model_number = askReq.model_number
    /\ \A k \in 1..Len(askResp.sources) :
         askResp.sources[k].model_number = askReq.model_number

\* a filtered question answered from its document while the table holds
\* scorable rows of the other document
C8_Witness ==
  /\ Retrieved
  /\ askReq.model_number = "M1"
  /\ askResp.answer = "generated"
  /\ askResp.sources # <<>>
  /\ \E i \in 1..Len(store) :
       /\ store[i].model_number = "M2"
       /\ Len(store[i].embedding) = Len(askQ)

\* C9: relevantChunks has min(limit, number of scorable rows) entries, each
\* made from a different scorable row, in non-increasing similarity, and no
\* scorable row left out is more similar than the last entry.
C9_TopK ==
  Retrieved =>
    /\ Len(askChunks) <= askReq.limit
    /\ Len(askChunks) = (IF Cardinality(Scorable) < askReq.limit
                         THEN Cardinality(Scorable) ELSE askReq.limit)
    /\ ReturnedRows \subseteq Scorable
    /\ Cardinality(ReturnedRows) = Len(askChunks)
    /\ \A k \in 1..Len(askChunks) :
         askChunks[k].similarity =
           CosineSimilarity(askQ, Parse(askData[askChunks[k].row].embedding))
    /\ \A k \in 1..(Len(askChunks) - 1) :
         ~SimLess(askChunks[k].similarity, askChunks[k + 1].similarity)
    /\ \A i \in Scorable \ ReturnedRows :
         ~SimLess(askChunks[Len(askChunks)].similarity,
                  CosineSimilarity(askQ, Parse(askData[i].embedding)))

\* more scorable rows than the limit, of different similarities: the result
\* is cut and a less similar row is left out
C9_Witness ==
  /\ Retrieved
  /\ askReq.limit >= 1
  /\ Len(askChunks) = askReq.limit
  /\ \E i \in Scorable \ ReturnedRows :
       SimLess(CosineSimilarity(askQ, Parse(askData[i].embedding)),
               askChunks[1].similarity)

\* C10: when the store query of an Ask request succeeds and yields no
\* candidate, the response is 200 with the canned answer and no sources, and
\* the generation provider is not called.
C10_EmptyCorpusIsNormal ==
  (askReq.kind = "ask" /\ Retrieved /\ Len(askChunks) = 0) =>
    /\ askPc = "done"
    /\ askResp.status = 200
    /\ askResp.answer = "canned"
    /\ askResp.sources = <<>>
    /\ ~askGen

\* a filtered question about a document without rows, asked of a table that
\* is not empty
C10_Witness ==
  /\ askReq.kind = "ask"
  /\ askReq.model_number \in Docs
  /\ Retrieved
  /\ askData = <<>>
  /\ store # <<>>
  /\ askResp.answer = "canned"

\* the clamped target chunk size of the call
TargetSize ==
  IF chunkIn.maxChunkSize < 100 THEN 100
  ELSE IF chunkIn.maxChunkSize > 10000 THEN 10000 ELSE chunkIn.maxChunkSize

\* C11: no chunk returned by splitTextIntoChunks is longer than twice the
\* clamped target chunk size.
C11_ChunkSizeBound ==
  chunkOut.called =>
    \A i \in 1..Len(chunkOut.chunks) :
      /\ ChunkLength(chunkOut.chunks[i]) <= 2 * TargetSize
      /\ ChunkLength(chunkOut.chunks[i]) > 0

\* a target size above the ceiling was clamped and the text was cut into
\* several chunks of the ceiling's size
C11_Witness ==
  /\ chunkOut.called
  /\ chunkIn.maxChunkSize > 10000
  /\ Len(chunkOut.chunks) >= 3
  /\ ChunkLength(chunkOut.chunks[1]) = 10000

\* C12: the spans taken by splitTextIntoChunks start at 0, have strictly
\* increasing starts, each starts at or before the end of the one before it,
\* and the last one ends at the length of the text.
C12_ChunkCoverage ==
  (chunkOut.called /\ chunkIn.text.len > 0) =>
    LET spans == chunkOut.spans IN
      /\ Len(spans) >= 1
      /\ spans[1].start = 0
      /\ \A i \in 1..(Len(spans) - 1) :
           /\ spans[i].start < spans[i + 1].start
           /\ spans[i + 1].start <= spans[i].end
      /\ spans[Len(spans)].end = chunkIn.text.len

\* what splitTextIntoChunks yields for the text of handler h's document
AllChunks(h) == SplitTextIntoChunks(cleanText[h], 1000, 100).chunks

\* C13: one ingestion run embeds and stores at most 50 chunks of a document;
\* when the chunker yields more, the chunks embedded and the rows prepared and
\* stored are the first 50 chunks, in order.
C13_ChunkCeiling ==
  /\ \A h \in Handlers :
       LET all == AllChunks(h) IN
         /\ Len(docChunks[h]) <= 50
         /\ nChunks[h] = Len(docChunks[h])
         /\ Len(embeddings[h]) <= Len(docChunks[h])
         /\ cleanText[h].len > 0 =>
              docChunks[h] = SubSeq(all, 1, Min2(50, Len(all)))
         /\ chunkData[h] # <<>> =>
              /\ Len(chunkData[h]) = Len(docChunks[h])
              /\ \A i \in 1..Len(chunkData[h]) :
                   /\ chunkData[h][i].content = all[i]
                   /\ chunkData[h][i].chunk_index = i - 1
         /\ (Reported(h) /\ LastOutcome(h).success) =>
              /\ LastOutcome(h).chunksProcessed <= 50
              /\ RowsOf(store, doc[h]) = chunkData[h]
  /\ \A t \in RunsIn(store) :
       Cardinality({i \in 1..Len(store) : store[i].processed_at = t}) <= 50

\* a document of more than 50 chunks was stored as 50 rows
C13_Witness ==
  \E h \in Handlers :
    /\ Reported(h)
    /\ LastOutcome(h).success
    /\ Len(AllChunks(h)) > 100
    /\ LastOutcome(h).chunksProcessed = 50
    /\ Len(RowsOf(store, doc[h])) = 50

\* a provider call for a chunk of handler h returns in this step
EmbedCallReturns(h) ==
  pc[h] = "embed" /\ <<embeddings[h], attempts[h]>>' # <<embeddings[h], attempts[h]>>

\* C14: while a provider call for a chunk is in flight, fewer than 3 calls
\* for that chunk have failed; a call that succeeds settles the chunk with its
\* vector; a call that fails is followed by another call for the same chunk
\* unless it is the third, which settles the chunk with the empty vector; and
\* the next chunk starts with no failed call, the run going on with it.
C14_RetryBudget ==
  /\ [](\A h \in Handlers :
          pc[h] = "embed" =>
            /\ attempts[h] < 3
            /\ Len(embeddings[h]) < nChunks[h])
  /\ [][\A h \in Handlers :
          EmbedCallReturns(h) =>
            \/ /\ embeddings'[h] = embeddings[h]
               /\ attempts'[h] = attempts[h] + 1
               /\ attempts'[h] < 3
               /\ pc'[h] = "embed"
            \/ /\ Len(embeddings'[h]) = Len(embeddings[h]) + 1
               /\ SubSeq(embeddings'[h], 1, Len(embeddings[h])) = embeddings[h]
               /\ embeddings'[h][Len(embeddings'[h])] = <<>> => attempts[h] = 2
               /\ attempts'[h] = 0
               /\ Len(embeddings'[h]) < nChunks[h] => pc'[h] = "embed"
               /\ Len(embeddings'[h]) = nChunks[h] => pc'[h] # "embed"]_vars

\* the first chunk failed three times, the second succeeded, and the third
\* is at its third call
C14_Witness ==
  \E h \in Handlers :
    /\ pc[h] = "embed"
    /\ nChunks[h] = 3
    /\ Len(embeddings[h]) = 2
    /\ embeddings[h][1] = <<>>
    /\ embeddings[h][2] # <<>>
    /\ attempts[h] = 2

\* generateEmbeddings of handler h has settled every chunk
EmbeddingsSettled(h) == nChunks[h] >= 1 /\ Len(embeddings[h]) = nChunks[h]

\* C15: once every chunk is settled, the run has failed in the embedding
\* stage exactly when every vector is empty; otherwise the rows prepared are
\* one per chunk, in order, each with its chunk's vector (empty for a failed
\* chunk), the run fails only if the insert does, and a run that reports
\* success has stored all of them.
C15_EmbeddingThresholds ==
  \A h \in Handlers :
    /\ (Reported(h) /\ LastOutcome(h).message = "embed") =>
         (EmbeddingsSettled(h) /\ AllEmpty(embeddings[h]))
    /\ EmbeddingsSettled(h) =>
         IF AllEmpty(embeddings[h])
         THEN Reported(h) /\ LastOutcome(h).message = "embed"
         ELSE /\ Len(chunkData[h]) = nChunks[h]
              /\ \A i \in 1..nChunks[h] :
                   /\ chunkData[h][i].embedding = Stringify(embeddings[h][i])
                   /\ chunkData[h][i].content = docChunks[h][i]
                   /\ chunkData[h][i].chunk_index = i - 1
              /\ Reported(h) =>
                   /\ LastOutcome(h).message \in {"stored", "store"}
                   /\ LastOutcome(h).success =>
                        /\ LastOutcome(h).chunksProcessed = nChunks[h]
                        /\ RowsOf(store, doc[h]) = chunkData[h]

\* one chunk of three obtained a vector, fewer than half, and the document
\* was stored with success
C15_Witness ==
  \E h \in Handlers :
    /\ nChunks[h] = 3
    /\ EmbeddingsSettled(h)
    /\ Len(ValidEmbeddings(embeddings[h])) = 1
    /\ Reported(h)
    /\ LastOutcome(h).success
    /\ Len(RowsOf(store, doc[h])) = 3

\* the run of handler h has ended with a failure of a stage before Store
FailedBeforeStore(h) ==
  /\ Reported(h)
  /\ LastOutcome(h).message \in
       {"input", "download", "parse", "empty", "nochunks", "embed"}

\* C16: a run is in the extraction only after a download attempt succeeded,
\* in the embedding only with the chunks of an extracted text, and at the
\* store only with every chunk settled and some vector not empty; the stages
\* follow one another in the order download, extraction and chunking,
\* embedding, delete, insert; the table changes only in a delete or insert
\* step; and a run that failed before the store stage has issued no store
\* statement.
C16_StageOrder ==
  /\ [](\A h \in Handlers :
          /\ pc[h] = "parse" => attempts[h] < 3
          /\ pc[h] = "embed" =>
               /\ cleanText[h].len > 0
               /\ docChunks[h] # <<>>
               /\ storeOps[h] = 0
          /\ (pc[h] \in {"delete", "insert"} \/ storeOps[h] > 0) =>
               /\ EmbeddingsSettled(h)
               /\ ~AllEmpty(embeddings[h])
               /\ Len(chunkData[h]) = nChunks[h]
          /\ FailedBeforeStore(h) => storeOps[h] = 0)
  /\ [][/\ \A h \in Handlers :
            /\ pc'[h] # pc[h] =>
                 /\ pc'[h] = "backoff" => pc[h] = "download"
                 /\ pc'[h] = "download" =>
                      pc[h] \in {"idle", "done", "fetch", "wait", "backoff"}
                 /\ pc'[h] = "parse" => pc[h] = "download"
                 /\ pc'[h] = "embed" => pc[h] = "parse"
                 /\ pc'[h] = "delete" => pc[h] = "embed"
                 /\ pc'[h] = "insert" => pc[h] = "delete"
            /\ storeOps'[h] > storeOps[h] => pc[h] \in {"delete", "insert"}
            /\ (FailedBeforeStore(h))' => store' = store
        /\ store' # store =>
             \E h \in Handlers :
               /\ pc[h] \in {"delete", "insert"}
               /\ storeOps'[h] = storeOps[h] + 1]_vars

\* a re-ingestion failed in the extraction and the rows of the document's
\* earlier ingestion are still in the table
C16_Witness ==
  \E h \in Handlers :
    /\ Reported(h)
    /\ LastOutcome(h).message = "parse"
    /\ storeOps[h] = 0
    /\ RowsOf(store, doc[h]) # <<>>

\* C17: a download attempt is in flight only while fewer than 3 have failed;
\* after a failed attempt that is not the third the run waits 2000 ms times
\* the number of failed attempts (2000, then 4000) and attempts again; after
\* an attempt that succeeds no further attempt is made in the run; and after
\* the third failed attempt the run reports the failure of the download
\* without a text, a chunk, an embedding or a store statement.
C17_DownloadRetry ==
  /\ [](\A h \in Handlers :
          /\ pc[h] = "download" => (attempts[h] < 3 /\ timer[h] = 0)
          /\ pc[h] = "backoff" =>
               /\ attempts[h] \in {1, 2}
               /\ timer[h] = 2000 * attempts[h]
          /\ (Reported(h) /\ LastOutcome(h).message = "download") =>
               /\ attempts[h] = 3
               /\ ~LastOutcome(h).success
               /\ cleanText[h].len = 0
               /\ docChunks[h] = <<>>
               /\ embeddings[h] = <<>>
               /\ chunkData[h] = <<>>
               /\ storeOps[h] = 0)
  /\ [][\A h \in Handlers :
          /\ (pc[h] = "download" /\ attempts'[h] = attempts[h] + 1) =>
               IF attempts[h] = 2
               THEN (Reported(h) /\ LastOutcome(h).message = "download")'
               ELSE pc'[h] = "backoff" /\ timer'[h] > timer[h]
          /\ (pc[h] = "backoff" /\ pc'[h] # pc[h]) =>
               (pc'[h] = "download" /\ attempts'[h] = attempts[h])
          /\ (pc[h] = "download" /\ pc'[h] = "parse") =>
               attempts'[h] = attempts[h]
          /\ ~(/\ pc[h] \in {"parse", "embed", "delete", "insert"}
               /\ pc'[h] \in {"download", "backoff"})
          /\ (pc'[h] = "download" /\ pc[h] \notin {"download", "backoff"}) =>
               attempts'[h] = 0]_vars

\* a re-ingestion gave up after three failed downloads and the rows of the
\* document's earlier ingestion are still in the table
C17_Witness ==
  \E h \in Handlers :
    /\ Reported(h)
    /\ LastOutcome(h).message = "download"
    /\ attempts[h] = 3
    /\ RowsOf(store, doc[h]) # <<>>

\* the state of the document that handler h is ingesting or has ingested last
Status(h) ==
  IF pc[h] \in {"download", "backoff", "parse", "embed", "delete", "insert"}
  THEN "processing"
  ELSE IF Reported(h)
  THEN (IF LastOutcome(h).success THEN "processed" ELSE "failed")
  ELSE "unprocessed"

\* C18: a document becomes processed only from processing, and failed only
\* from processing or by the validation of its inputs at the start of its
\* run; a document in processing stays the handler's document and leaves
\* processing only to processed or failed; a run starts at the download with
\* no failed attempt.  With every external call and timer eventually
\* returning, a document in processing eventually is processed or failed, and
\* a batch that has read its manuals eventually returns the summary.
C18_StateMachineAndTermination ==
  /\ [][\A h \in Handlers :
          /\ (Status(h)' = "processed" /\ Status(h) # "processed") =>
               (Status(h) = "processing" /\ doc'[h] = doc[h])
          /\ (Status(h)' = "failed" /\ Status(h) # "processing"
                /\ <<pc[h], results[h], resp[h]>>' # <<pc[h], results[h], resp[h]>>) =>
               LastOutcome(h)'.message = "input"
          /\ Status(h) = "processing" =>
               /\ Status(h)' \in {"processing", "processed", "failed"}
               /\ doc'[h] = doc[h]
          /\ (Status(h)' = "processing" /\ Status(h) # "processing") =>
               (pc'[h] = "download" /\ attempts'[h] = 0)]_vars
  /\ \A h \in Handlers :
       /\ (Status(h) = "processing") ~> (Status(h) \in {"processed", "failed"})
       /\ (req[h].process_all /\ manuals[h] # <<>>) ~>
            (pc[h] = "done" /\ resp[h].kind = "batch"
               /\ resp[h].total = Len(manuals[h]))

\* a batch of two manuals returned its summary with both documents processed
C18_Witness ==
  \E h \in Handlers :
    /\ pc[h] = "done"
    /\ resp[h].kind = "batch"
    /\ resp[h].total = 2
    /\ resp[h].successful = 2
    /\ Status(h) = "processed"

\* C19: a wipe that answers success, no ingestion running, leaves the table
\* empty and reports afterCount = 0 and deletedCount = beforeCount, the rows
\* met at entry when the count before deletion returned; on a table already
\* empty the three counts are 0; and a wipe fails only if its delete does.
C19_WipeIdempotent ==
  wipePc = "done" =>
    /\ wipeResp.success <=> "delete" \notin wipeLog.errors
    /\ wipeResp.success =>
         /\ store = <<>>
         /\ wipeResp.status = 200
         /\ wipeResp.afterCount = 0
         /\ wipeResp.deletedCount = wipeResp.beforeCount
         /\ "before" \notin wipeLog.errors =>
              wipeResp.beforeCount = wipeLog.rows
         /\ wipeLog.rows = 0 =>
              (wipeResp.deletedCount = 0 /\ wipeResp.beforeCount = 0)

\* a wipe removed rows, and the wipe after it met the empty table and
\* answered success with the three counts 0
C19_Witness ==
  /\ wipePc = "done"
  /\ wipeResp.success
  /\ wipeLog.prior > 0
  /\ wipeLog.rows = 0
  /\ wipeLog.errors = {}
  /\ wipeResp.deletedCount = 0
  /\ store = <<>>

\* C20: a wipe one of whose store calls (the count before, the delete, the
\* verifying count) reported an error answers failure, never success.
C20_WipeErrorsPropagate ==
  (wipePc = "done" /\ wipeLog.errors # {}) =>
    (~wipeResp.success /\ wipeResp.status = 500)

\* C21: when a single-document ingest request fails with an error, the
\* response has the status of the error's condition: 408 for a timeout, 413
\* for the memory condition, 429 for the rate limit, 500 otherwise, whichever
\* stage of processPDFDocument raised the error.
C21_ErrorsClassified ==
  \A h \in Handlers :
    (/\ pc[h] = "done" /\ ~req[h].process_all /\ resp[h].kind = "single"
     /\ ~resp[h].results[1].success
     /\ resp[h].results[1].error \in Conditions) =>
      resp[h].status = Classify(resp[h].results[1].error)

\* the provider's result holds a text
HasText(r) ==
  /\ ~r.threw /\ Len(r.candidates) > 0 /\ Len(r.candidates[1]) > 0
  /\ r.candidates[1][1] # ""

\* C22: when the generation provider returns no text (no candidate, no part
\* or an empty text) the Ask response is an error without answer and without
\* sources; a response with a generated answer carries the text the provider
\* returned for this request.
C22_NeverFabricate ==
  /\ (askPc = "done" /\ askGen /\ ~HasText(askCall.result)) =>
       (askResp.status = 500 /\ askResp.answer = "none" /\ askResp.text = ""
        /\ askResp.sources = <<>>)
  /\ askResp.answer = "generated" =>
       /\ askPc = "done" /\ askGen /\ HasText(askCall.result)
       /\ askResp.text = askCall.result.candidates[1][1]

C22_Witness ==
  /\ askPc = "done" /\ askGen /\ askCall.result = Candidate(<<"">>)
  /\ askResp.status = 500 /\ Len(askChunks) > 0

\* source i of the response is made from the chunk labelled Context i
SourceOfContext(i) ==
  /\ askCall.prompt[i].label = i
  /\ askCall.prompt[i].content = askChunks[i].content
  /\ askResp.sources[i].model_number = askCall.prompt[i].model_number
  /\ askResp.sources[i].similarity = askChunks[i].similarity
  /\ askResp.sources[i].preview.head.from = askCall.prompt[i].content.from
  /\ askResp.sources[i].preview.head.to <= askCall.prompt[i].content.to

\* C23 (as stated): in every successful non-canned Ask response the sources
\* list has one entry per chunk of the prompt, in the same order, entry i with
\* the document id and similarity of the chunk labelled Context i and a
\* preview that is a prefix of that chunk's content (the stored texts hold no
\* period, so a preview that ends in "..." is no prefix of the content).
C23_PreviewIsPrefix ==
  askResp.answer = "generated" =>
    /\ Len(askResp.sources) = Len(askCall.prompt)
    /\ \A i \in 1..Len(askResp.sources) :
         /\ SourceOfContext(i)
         /\ askResp.sources[i].preview.suffix = ""

\* C23 (amended): the same, the preview being the first 200 characters of the
\* chunk's content (all of it when it is shorter) followed by "...".
C23_CitationTraceability ==
  askResp.answer = "generated" =>
    /\ Len(askResp.sources) = Len(askCall.prompt)
    /\ Len(askResp.sources) = Len(askChunks)
    /\ \A i \in 1..Len(askResp.sources) :
         /\ SourceOfContext(i)
         /\ ChunkLength(askResp.sources[i].preview.head) =
              Min2(200, ChunkLength(askCall.prompt[i].content))
         /\ askResp.sources[i].preview.suffix = "..."

\* a response with sources of two documents, a content cut by the preview
\* and a content shorter than the preview
C23_Witness ==
  /\ askResp.answer = "generated"
  /\ Len(askResp.sources) >= 2
  /\ askResp.sources[1].model_number # askResp.sources[2].model_number
  /\ \E i \in 1..Len(askChunks) : ChunkLength(askChunks[i].content) > 200
  /\ \E i \in 1..Len(askChunks) : ChunkLength(askChunks[i].content) < 200

\* C24: a document whose extracted text is missing, or empty once cleaned and
\* trimmed, gets an outcome with success false that was returned and not
\* thrown; its run calls neither the embedding provider nor the store; in a
\* batch it is counted as failed and the manuals after it are still processed.
C24_EmptyIsNonFatal ==
  /\ \A r \in Extracted :
       NoContent(r) <=> (\A i \in 1..Len(r.text) : r.text[i] # "x")
  /\ \A h \in Handlers :
       /\ (Reported(h) /\ LastOutcome(h).message = "empty") =>
            /\ ~LastOutcome(h).success
            /\ LastOutcome(h).error = "none"
            /\ LastOutcome(h).modelNumber = doc[h]
            /\ nChunks[h] = 0 /\ embeddings[h] = <<>>
            /\ chunkData[h] = <<>> /\ storeOps[h] = 0
            /\ req[h].process_all =>
                 pc[h] = (IF Len(results[h]) < Len(manuals[h]) THEN "wait"
                          ELSE "done")
            /\ ~req[h].process_all => resp[h].status = 500
       /\ (req[h].process_all /\ pc[h] = "done" /\ resp[h].kind = "batch") =>
            /\ Len(resp[h].results) = Len(manuals[h])
            /\ resp[h].failed =
                 Cardinality({i \in 1..Len(resp[h].results) :
                                ~resp[h].results[i].success})
            /\ resp[h].failed >=
                 Cardinality({i \in 1..Len(resp[h].results) :
                                resp[h].results[i].message = "empty"})

\* a batch whose first document had no text and whose second was stored
C24_Witness ==
  \E h \in Handlers :
    /\ pc[h] = "done" /\ resp[h].kind = "batch"
    /\ Len(resp[h].results) = 2
    /\ resp[h].results[1].message = "empty"
    /\ resp[h].results[2].success
    /\ resp[h].failed = 1
    /\ RowsOf(store, resp[h].results[1].modelNumber) = <<>>

\* C25: in every iteration of splitTextIntoChunks the end offset used is at
\* most min(start + targetSize, length), so that no span is longer than the
\* target size, whatever break was chosen.
C25_EndWithinNaiveEnd ==
  chunkOut.called =>
    \A i \in 1..Len(chunkOut.spans) :
      /\ chunkOut.spans[i].end <=
           Min2(chunkOut.spans[i].start + TargetSize, chunkIn.text.len)
      /\ chunkOut.spans[i].end - chunkOut.spans[i].start <= TargetSize

\* handler h is inside processPDFDocument
InDocument(h) ==
  pc[h] \in {"download", "backoff", "parse", "embed", "delete", "insert"}

\* C26: a batch processes its manuals one at a time in the order of the
\* registry: the document in processing is manual k when k - 1 outcomes are
\* recorded, a download of the next manual starts only after the outcome of
\* the one before is recorded, outcome i belongs to manual i, and outcomes
\* are recorded one by one.
C26_SequentialBatch ==
  /\ [](\A h \in Handlers :
          (req[h].process_all /\ manuals[h] # <<>>) =>
            /\ processed[h] \in 1..Len(manuals[h])
            /\ \A i \in 1..Len(results[h]) :
                 results[h][i].modelNumber = manuals[h][i].model_number
            /\ (InDocument(h) \/ pc[h] = "wait") =>
                 Len(results[h]) = processed[h] - 1
            /\ InDocument(h) =>
                 doc[h] = manuals[h][processed[h]].model_number
            /\ pc[h] = "done" => Len(results[h]) = Len(manuals[h]))
  /\ [][\A h \in Handlers :
          (req[h].process_all /\ manuals[h] # <<>>
           /\ pc[h] \notin {"fetch", "done"}) =>
            /\ manuals'[h] = manuals[h]
            /\ \/ results'[h] = results[h]
               \/ /\ InDocument(h) \/ pc[h] = "wait"
                  /\ Len(results'[h]) = Len(results[h]) + 1
                  /\ SubSeq(results'[h], 1, Len(results[h])) = results[h]
            /\ (pc'[h] = "download" /\ pc[h] \notin {"download", "backoff"}) =>
                 /\ pc[h] = "wait"
                 /\ Len(results[h]) = processed[h] - 1
                 /\ processed'[h] = processed[h]
                 /\ doc'[h] = manuals[h][processed[h]].model_number
            /\ processed'[h] # processed[h] =>
                 /\ processed'[h] = processed[h] + 1
                 /\ Len(results'[h]) = processed[h]]_vars

\* a batch of two different manuals, both recorded, the second one in
\* processing after the first one's outcome
C26_Witness ==
  \E h \in Handlers :
    /\ req[h].process_all /\ Len(manuals[h]) = 2
    /\ manuals[h][1].model_number # manuals[h][2].model_number
    /\ pc[h] = "embed" /\ processed[h] = 2 /\ Len(results[h]) = 1
    /\ results[h][1].modelNumber = manuals[h][1].model_number
    /\ doc[h] = manuals[h][2].model_number

\* C27: the loop of splitTextIntoChunks ends with startIndex >= length for
\* every text, target size and overlap: neither the ceiling on the iterations
\* nor the guard on the indices ends it while text is left.
C27_LoopEndsAtLength ==
  (chunkOut.called /\ chunkIn.text.len > 0) =>
    chunkOut.startIndex >= chunkIn.text.len

\* C28: whenever processPDFDocument reports success false for a document,
\* whatever stage failed, the rows stored for that document are the rows that
\* were stored for it when the run started.
C28_FailureKeepsData ==
  \A h \in Handlers :
    (Reported(h) /\ ~LastOutcome(h).success) =>
      RowsOf(store, doc[h]) = docBefore[h]

\* C29: the deletedCount a wipe reports is never negative and is the number
\* of rows its delete removed, also when a count failed and also when an
\* ingestion inserted rows between the count before, the delete and the
\* verifying count.
C29_DeletedCountExact ==
  (wipePc = "done" /\ wipeResp.success) =>
    /\ wipeResp.deletedCount >= 0
    /\ wipeResp.deletedCount = wipeLog.removed

\* table t holds a row of document m with a non-empty embedding
HasRetrievable(t, m) ==
  \E j \in 1..Len(t) : t[j].model_number = m /\ t[j].embedding # <<>>

\* C30: an ingestion that reports success has inserted, for its document, as
\* many rows as the chunksProcessed it reports (rows with an empty embedding
\* included), at least one of them with a non-empty embedding; and a document
\* keeps a row with a non-empty embedding until a wipe or a re-ingestion of
\* it deletes.
C30_SuccessMeansStored ==
  /\ [](\A h \in Handlers :
          (Reported(h) /\ LastOutcome(h).success) =>
            /\ LastOutcome(h).chunksProcessed = Len(chunkData[h])
            /\ LastOutcome(h).chunksProcessed >= 1
            /\ HasRetrievable(chunkData[h], doc[h])
            /\ \A i \in 1..Len(chunkData[h]) :
                 chunkData[h][i].model_number = doc[h])
  /\ [][/\ \A h \in Handlers :
            (pc[h] = "insert" /\ pc'[h] \in {"wait", "done"}
             /\ (LastOutcome(h).success)') =>
              /\ store' = store \o chunkData[h]
              /\ Len(RowsOf(store', doc[h])) - Len(RowsOf(store, doc[h])) =
                   (LastOutcome(h).chunksProcessed)'
              /\ HasRetrievable(store', doc[h])
        /\ \A m \in Docs :
            (HasRetrievable(store, m) /\ ~HasRetrievable(store', m)) =>
              \/ wipePc = "delete"
              \/ \E h \in Handlers : pc[h] = "delete" /\ doc[h] = m]_vars

\* a success that stored two rows, the first one with an empty embedding
C30_Witness ==
  \E h \in Handlers :
    /\ Reported(h) /\ LastOutcome(h).success
    /\ LastOutcome(h).chunksProcessed = 2
    /\ chunkData[h][1].embedding = <<>>
    /\ chunkData[h][2].embedding # <<>>
    /\ Len(RowsOf(store, doc[h])) = 2

====
